---- MODULE Spec2Model ----
(***************************************************************************)
(* A model of the proxy-monitor extension (src/extension/api.js).  The     *)
(* file holds several revisions of the same experiment API; the model      *)
(* follows the last one (lines 1598-2058: one-shot probe, ContentMonitor)  *)
(* and adds the operations of the earlier revisions where they differ.     *)
(*                                                                         *)
(* Time is counted in ticks of a quarter of an hour, so that the rounding  *)
(* hoursSince does on milliseconds is visible in the model.                *)
(***************************************************************************)
EXTENDS Integers, Sequences, FiniteSets, Bags, TLC

VARIABLES
  pref,           \* the preference extensions.proxyMonitor
  revision,       \* which revision of api.js is running
  now,            \* Date.now(), in ticks
  started,        \* ProxyMonitor.started (the channel filter is registered)
  errors,         \* ProxyMonitor.errors: key -> [time]
  disabledTime,   \* ProxyMonitor.disabledTime (0: not set)
  directFailures, \* ProxyMonitor.directFailures
  contentErrors,  \* ContentMonitor.contentErrors: source -> timestamp
  inflight,       \* bag of monitored requests whose wrapper has our listeners
  monitor,        \* the monitor object, the API's registrations and the add-ons
  out             \* what the last applyFilter call handed to proxyFilter

vars == <<pref, revision, now, started, errors, disabledTime, directFailures,
          contentErrors, inflight, monitor, out>>

----------------------------------------------------------------------------
(* Program constants.                                                      *)

PROXY_DIRECT == "direct"
DISABLE_HOURS == 48
MAX_DISABLED_PI == 5
MAX_DIRECT_FAILURES == 5
REMOTE_SETTINGS == "remote-settings"

(* Ticks per hour: the model's scale for the 1000 * 60 * 60 ms of          *)
(* hoursSince.                                                             *)
TicksPerHour == 4

----------------------------------------------------------------------------
(* Bounds of the model.                                                    *)

StartTime == 1        \* the clock reading at construction (never 0)
MaxSteps == 2         \* how many times the clock is advanced
MaxInFlight == 1      \* monitored requests awaiting their outcome events
ExtraFailures == 1    \* direct failures counted beyond MAX_DIRECT_FAILURES + 1
MaxCount == 2         \* failures counted in one record (lines 1229-1596)

HalfWindow == (DISABLE_HOURS * TicksPerHour) \div 2
ClockSteps == {HalfWindow - 1, HalfWindow}
MaxNow == StartTime + MaxSteps * HalfWindow

Null == [type |-> "null"]
NoKey == <<>>

Direct == [type |-> PROXY_DIRECT, host |-> "", port |-> 0]
Proxy(h) == [type |-> "http", host |-> h, port |-> 8080]

(* The default chains the proxy service hands to the filter: each is the   *)
(* list of proxyInfo objects linked by failoverProxy; <<>> is null.        *)
Chains ==
  { <<>>,
    <<Proxy("a"), Proxy("b"), Direct>>,
    <<Proxy("a"), Proxy("b")>> }

(* One chain of MAX_DISABLED_PI proxies, for the global breaker.           *)
BreakerChains ==
  { <<>>,
    <<Proxy("a"), Proxy("b"), Proxy("c"), Proxy("d"), Proxy("e")>> }

(* A channel as applyFilter and the listeners see it; throws names the     *)
(* call that raises an exception for this channel, if any.                 *)
Channel(isSystem, finalURL, throws) ==
  [isSystem |-> isSystem, finalURL |-> finalURL, throws |-> throws]

Channels ==
  { Channel(FALSE, "other", "none"),
    Channel(TRUE, "other", "none"),
    Channel(TRUE, "other", "QueryInterface"),
    Channel(TRUE, "other", "ChannelWrapper"),
    Channel(TRUE, "other", "newProxyInfo") }

(* The same, with a request to the remote-settings server.                 *)
ContentChannels == Channels \cup {Channel(TRUE, "settings", "none")}

ErrorNames == {"InvalidSignatureError", "NetworkError"}

StatusCodes == {199, 200, 399, 400}
BreakerCodes == {200, 500}

----------------------------------------------------------------------------
(* Pure helpers.                                                           *)

Abs(x) == IF x < 0 THEN -x ELSE x

(* Math.round: the nearest integer, halves towards +infinity; the argument *)
(* is the fraction num / den with den > 0.                                 *)
Round(num, den) == (2 * num + den) \div (2 * den)

hoursSince(dt2, dt1) == Abs(Round(dt2 - dt1, TicksPerHour))

(* getProxyInfoKey without the test of the type: a direct proxyInfo gets   *)
(* the key "direct::0".                                                    *)
getProxyInfoKey_keysDirect(proxyInfo) ==
  IF proxyInfo = Null
  THEN NoKey
  ELSE <<proxyInfo.type, proxyInfo.host, proxyInfo.port>>

getProxyInfoKey(proxyInfo) ==
  IF proxyInfo = Null \/ proxyInfo.type = PROXY_DIRECT
  THEN NoKey
  ELSE <<proxyInfo.type, proxyInfo.host, proxyInfo.port>>

MapDelete(m, k) == [x \in DOMAIN m \ {k} |-> m[x]]
MapSet(m, k, v) == [x \in DOMAIN m \cup {k} |-> IF x = k THEN v ELSE m[x]]
EmptyMap == [x \in {} |-> 0]

(* proxyDisabled without the errors.delete(key) of an expired record.      *)
proxyDisabled_keepsRecord(proxyInfo, errs, t) ==
  LET key == getProxyInfoKey(proxyInfo) IN
  [disabled |-> /\ key # NoKey
                /\ key \in DOMAIN errs
                /\ hoursSince(errs[key].time, t) < DISABLE_HOURS,
   errors |-> errs]

(* proxyDisabled(proxyInfo) on registry errs: what it returns and the      *)
(* registry it leaves (an expired record is deleted by the lookup).        *)
proxyDisabled(proxyInfo, errs, t) ==
  LET key == getProxyInfoKey(proxyInfo) IN
  IF key = NoKey THEN [disabled |-> FALSE, errors |-> errs]
  ELSE IF key \notin DOMAIN errs THEN [disabled |-> FALSE, errors |-> errs]
  ELSE IF hoursSince(errs[key].time, t) >= DISABLE_HOURS
       THEN [disabled |-> FALSE, errors |-> MapDelete(errs, key)]
       ELSE [disabled |-> TRUE, errors |-> errs]

(* The while loop of pruneProxyInfo from node i on: the nodes pushed to    *)
(* enabledProxies and the registry after the lookups.                      *)
RECURSIVE PruneWalk(_, _, _, _, _)
PruneWalk(chain, i, enabled, errs, t) ==
  IF i > Len(chain) THEN [enabledProxies |-> enabled, errors |-> errs]
  ELSE LET d == proxyDisabled(chain[i], errs, t) IN
       PruneWalk(chain, i + 1,
                 IF d.disabled THEN enabled ELSE Append(enabled, i),
                 d.errors, t)

(* failoverProxy of the default chain: node i links to i + 1, the last to  *)
(* null (0).                                                               *)
DefaultLinks(chain) ==
  [i \in 1..Len(chain) |-> IF i < Len(chain) THEN i + 1 ELSE 0]

(* The re-link loop linking each enabled candidate to the next but one     *)
(* (enabledProxies[i + 2] for enabledProxies[i + 1]).                      *)
Relink_nextButOne(chain, enabled) ==
  [i \in 1..Len(chain) |->
     IF \E j \in 1..(Len(enabled) - 2) : enabled[j] = i
     THEN LET j == CHOOSE j \in 1..(Len(enabled) - 2) : enabled[j] = i
          IN enabled[j + 2]
     ELSE DefaultLinks(chain)[i]]

(* The re-link loop of pruneProxyInfo:                                     *)
(*   for (let i = 0; i < enabledProxies.length - 2; i++)                   *)
(* (indices here are 1-based).                                             *)
Relink(chain, enabled) ==
  [i \in 1..Len(chain) |->
     IF \E j \in 1..(Len(enabled) - 2) : enabled[j] = i
     THEN LET j == CHOOSE j \in 1..(Len(enabled) - 2) : enabled[j] = i
          IN enabled[j + 1]
     ELSE DefaultLinks(chain)[i]]

(* pruneProxyInfo cutting the link of every candidate it does not keep.    *)
pruneProxyInfo_unlinks(chain, errs, t) ==
  LET w == PruneWalk(chain, 1, <<>>, errs, t)
      links == Relink(chain, w.enabledProxies)
  IN
  [enabledProxies |-> w.enabledProxies,
   failoverProxy |->
     [i \in 1..Len(chain) |->
        IF \E j \in 1..Len(w.enabledProxies) : w.enabledProxies[j] = i
        THEN links[i] ELSE 0],
   errors |-> w.errors]

(* pruneProxyInfo collecting the enabled candidates last to first (unshift *)
(* for push).                                                              *)
pruneProxyInfo_unshift(chain, errs, t) ==
  LET w == PruneWalk(chain, 1, <<>>, errs, t)
      n == Len(w.enabledProxies)
      rev == [j \in 1..n |-> w.enabledProxies[n + 1 - j]]
  IN
  [enabledProxies |-> rev,
   failoverProxy |-> Relink(chain, rev),
   errors |-> w.errors]

pruneProxyInfo(chain, errs, t) ==
  LET w == PruneWalk(chain, 1, <<>>, errs, t) IN
  [enabledProxies |-> w.enabledProxies,
   failoverProxy |-> Relink(chain, w.enabledProxies),
   errors |-> w.errors]

(* The proxyInfo objects reachable from node head over the links, as the   *)
(* sequence of their candidates.  Nodes 1..Len(chain) are the default      *)
(* chain's; node Len(chain) + 1 is the direct proxyInfo applyFilter        *)
(* creates, whose link is null unless links gives one.                     *)
NodeInfo(chain, i) == IF i <= Len(chain) THEN chain[i] ELSE Direct

RECURSIVE Reach(_, _, _, _)
Reach(chain, links, head, fuel) ==
  IF head = 0 \/ fuel = 0 THEN <<>>
  ELSE <<NodeInfo(chain, head)>> \o
       Reach(chain, links, IF head \in DOMAIN links THEN links[head] ELSE 0,
             fuel - 1)

Delivered(chain, links, head) == Reach(chain, links, head, Len(chain) + 2)

----------------------------------------------------------------------------
(* ProxyMonitor (lines 1598-2058).  This is the object's mutable part:     *)
(* [errors, disabledTime, directFailures].                                 *)

This == [errors |-> errors, disabledTime |-> disabledTime,
         directFailures |-> directFailures]

reset(this) ==
  [errors |-> EmptyMap, disabledTime |-> 0, directFailures |-> 0]

(* tooManyFailures starting a new bypass when the old one has expired.     *)
tooManyFailures_rearms(this, t) ==
  LET after == IF this.disabledTime # 0
                  /\ hoursSince(this.disabledTime, t) >= DISABLE_HOURS
               THEN [reset(this) EXCEPT !.disabledTime = t]
               ELSE this
  IN [value |-> after.disabledTime # 0, this |-> after]

tooManyFailures(this, t) ==
  LET after == IF this.disabledTime # 0
                  /\ hoursSince(this.disabledTime, t) >= DISABLE_HOURS
               THEN reset(this)
               ELSE this
  IN [value |-> after.disabledTime # 0, this |-> after]

(* checkErrors without the test of the error's age.                       *)
checkErrors_neverOld(url, ce, t) ==
  [value |-> REMOTE_SETTINGS \in DOMAIN ce /\ url = "settings",
   contentErrors |-> ce]

(* ContentMonitor.checkErrors(url): "settings" is a URL that starts with   *)
(* the remote-settings server URL.                                         *)
checkErrors(url, ce, t) ==
  IF REMOTE_SETTINGS \in DOMAIN ce /\ url = "settings"
  THEN IF ~(hoursSince(ce[REMOTE_SETTINGS], t) >= DISABLE_HOURS)
       THEN [value |-> TRUE, contentErrors |-> ce]
       ELSE [value |-> FALSE, contentErrors |-> MapDelete(ce, REMOTE_SETTINGS)]
  ELSE [value |-> FALSE, contentErrors |-> ce]

(* The try block of applyFilter, up to its return or to the exception the  *)
(* channel input makes a call throw: the value of proxyInfo (head: a node, *)
(* 0 for null), the links of the request's proxyInfo objects, the state    *)
(* left, and whether the listeners were added.                             *)
TryBlock(channel, chain, this, ce, t) ==
  LET n == Len(chain)
      asIs == [completion |-> "return", path |-> "nodefault",
               head |-> IF n = 0 THEN 0 ELSE 1, links |-> DefaultLinks(chain),
               this |-> this, contentErrors |-> ce, listening |-> FALSE]
  IN
  IF n = 0 THEN asIs
  ELSE IF channel.throws = "QueryInterface"
  THEN [asIs EXCEPT !.completion = "throw", !.path = "exception"]
  ELSE IF ~channel.isSystem THEN [asIs EXCEPT !.path = "notsystem"]
  ELSE IF channel.throws = "ChannelWrapper"
  THEN [asIs EXCEPT !.completion = "throw", !.path = "exception"]
  ELSE IF this.directFailures > MAX_DIRECT_FAILURES
          /\ Cardinality(DOMAIN this.errors) # 0
  THEN [asIs EXCEPT !.path = "probe", !.listening = TRUE,
                    !.this = [this EXCEPT !.directFailures = 0]]
  ELSE
  LET c == checkErrors(channel.finalURL, ce, t) IN
  IF c.value
  THEN [asIs EXCEPT !.path = "content", !.listening = TRUE, !.head = 0]
  ELSE
  LET tmf == tooManyFailures(this, t) IN
  IF tmf.value
  THEN [asIs EXCEPT !.path = "bypass", !.listening = TRUE, !.head = 0,
                    !.this = tmf.this, !.contentErrors = c.contentErrors]
  ELSE
  LET p == pruneProxyInfo(chain, tmf.this.errors, t)
      enabledProxies == p.enabledProxies
      after == [tmf.this EXCEPT !.errors = p.errors]
  IN
  IF Len(enabledProxies) = 0
  THEN [asIs EXCEPT !.path = "alldisabled", !.listening = TRUE, !.head = 0,
                    !.links = p.failoverProxy,
                    !.this = after, !.contentErrors = c.contentErrors]
  ELSE
  LET lastFailover == enabledProxies[Len(enabledProxies)]
      pruned == [asIs EXCEPT !.path = "pruned", !.listening = TRUE,
                             !.head = enabledProxies[1],
                             !.links = p.failoverProxy,
                             !.this = after,
                             !.contentErrors = c.contentErrors]
  IN
  IF p.failoverProxy[lastFailover] # 0
     \/ chain[lastFailover].type # PROXY_DIRECT
  THEN IF channel.throws = "newProxyInfo"
       THEN [pruned EXCEPT !.completion = "throw", !.path = "exception"]
       ELSE [pruned EXCEPT !.links[lastFailover] = n + 1]
  ELSE pruned

(* try { ... } finally { proxyFilter.onProxyFilterResult(proxyInfo) }:     *)
(* calls lists the argument of every onProxyFilterResult call made.        *)
Finally_onReturnOnly(block, chain) ==
  block @@ [calls |-> IF block.completion = "return"
                      THEN <<Delivered(chain, block.links, block.head)>>
                      ELSE <<>>]

Finally(block, chain) ==
  block @@ [calls |-> <<Delivered(chain, block.links, block.head)>>]

FilterCall_probeKeepsCount(channel, chain) ==
  LET f == Finally(TryBlock(channel, chain, This, contentErrors, now), chain)
  IN IF f.path = "probe"
     THEN [f EXCEPT !.this.directFailures = directFailures]
     ELSE f

(* applyFilter taking every request for a system request.                  *)
FilterCall_monitorsAll(channel, chain) ==
  Finally(TryBlock([channel EXCEPT !.isSystem = TRUE], chain, This,
                   contentErrors, now), chain)

FilterCall(channel, chain) ==
  Finally(TryBlock(channel, chain, This, contentErrors, now), chain)

NoOut == [op |-> "none"]

(* applyFilter while fewer than limit monitored requests await their       *)
(* outcome events.                                                         *)
applyFilterAmong(channel, defaultProxyInfo, limit) ==
  \E f \in {FilterCall(channel, defaultProxyInfo)} :
  /\ started
  /\ f.listening => BagCardinality(inflight) < limit
  /\ errors' = f.this.errors
  /\ disabledTime' = f.this.disabledTime
  /\ directFailures' = f.this.directFailures
  /\ contentErrors' = f.contentErrors
  /\ inflight' =
       IF f.listening
       THEN inflight (+) SetToBag({[proxyInfo |->
                                      Delivered(defaultProxyInfo, f.links,
                                                f.head),
                                    events |-> {}]})
       ELSE inflight
  /\ out' = [op |-> "applyFilter", defaultProxyInfo |-> defaultProxyInfo,
             path |-> f.path, links |-> f.links, calls |-> f.calls,
             entry |-> This]
  /\ UNCHANGED <<monitor, pref, revision, now, started>>

applyFilter(channel, defaultProxyInfo) ==
  applyFilterAmong(channel, defaultProxyInfo, MaxInFlight)

(* applyFilter for a request whose outcome events are not followed: the    *)
(* same call, the request is not added to the requests awaiting events.    *)
applyFilterUntracked(channel, defaultProxyInfo) ==
  LET f == FilterCall(channel, defaultProxyInfo) IN
  /\ started
  /\ f.listening
  /\ errors' = f.this.errors
  /\ disabledTime' = f.this.disabledTime
  /\ directFailures' = f.this.directFailures
  /\ contentErrors' = f.contentErrors
  /\ out' = [op |-> "applyFilter", defaultProxyInfo |-> defaultProxyInfo,
             path |-> f.path, links |-> f.links, calls |-> f.calls,
             entry |-> This]
  /\ UNCHANGED <<monitor, pref, revision, now, started, inflight>>

disableProxyInfo_alwaysCounts(proxyInfo, this, t) ==
  LET key == getProxyInfoKey(proxyInfo)
      counted == [this EXCEPT !.directFailures = this.directFailures + 1]
  IN
  IF key = NoKey THEN counted
  ELSE LET errs == MapSet(this.errors, key, [time |-> t]) IN
       [counted EXCEPT !.errors = errs,
                       !.disabledTime =
                          IF Cardinality(DOMAIN errs) >= MAX_DISABLED_PI
                          THEN t ELSE this.disabledTime]

(* disableProxyInfo testing errors.size before it inserts the record.      *)
disableProxyInfo_checksFirst(proxyInfo, this, t) ==
  LET key == getProxyInfoKey(proxyInfo) IN
  IF key = NoKey
  THEN [this EXCEPT !.directFailures = this.directFailures + 1]
  ELSE [this EXCEPT !.errors = MapSet(this.errors, key, [time |-> t]),
                    !.disabledTime =
                       IF Cardinality(DOMAIN this.errors) >= MAX_DISABLED_PI
                       THEN t ELSE this.disabledTime]

disableProxyInfo(proxyInfo, this, t) ==
  LET key == getProxyInfoKey(proxyInfo) IN
  IF key = NoKey
  THEN [this EXCEPT !.directFailures = this.directFailures + 1]
  ELSE LET errs == MapSet(this.errors, key, [time |-> t]) IN
       [this EXCEPT !.errors = errs,
                    !.disabledTime =
                       IF Cardinality(DOMAIN errs) >= MAX_DISABLED_PI
                       THEN t ELSE this.disabledTime]

(* enableProxyInfo clearing the trip time with the record.                 *)
enableProxyInfo_clearsTrip(proxyInfo, this) ==
  LET key == getProxyInfoKey(proxyInfo) IN
  IF key # NoKey /\ key \in DOMAIN this.errors
  THEN [this EXCEPT !.errors = MapDelete(this.errors, key),
                    !.disabledTime = 0]
  ELSE this

enableProxyInfo(proxyInfo, this) ==
  LET key == getProxyInfoKey(proxyInfo) IN
  IF key # NoKey /\ key \in DOMAIN this.errors
  THEN [this EXCEPT !.errors = MapDelete(this.errors, key)]
  ELSE this

(* handleEvent(event) as a function of the event: its type, whether the    *)
(* channel is an nsIProxiedChannel, channel.proxyInfo and                  *)
(* wrapper.statusCode.                                                     *)
(* handleEvent taking every status from 200 up as a success.               *)
EventEffect_noUpperBound(type, proxied, proxyInfo, status, this, t) ==
  IF ~proxied THEN this
  ELSE IF type = "error" THEN disableProxyInfo(proxyInfo, this, t)
  ELSE IF type = "stop" /\ status >= 200
  THEN enableProxyInfo(proxyInfo, this)
  ELSE this

EventEffect(type, proxied, proxyInfo, status, this, t) ==
  IF ~proxied THEN this
  ELSE IF type = "error" THEN disableProxyInfo(proxyInfo, this, t)
  ELSE IF type = "stop" /\ status >= 200 /\ status < 400
  THEN enableProxyInfo(proxyInfo, this)
  ELSE this

(* The proxyInfo a channel can be using when an event fires: one of the    *)
(* chain it was given, or null when it was given none.                     *)
InUse(req) ==
  IF req.proxyInfo = <<>> THEN {Null}
  ELSE {req.proxyInfo[i] : i \in 1..Len(req.proxyInfo)}

(* The channel is using the first proxyInfo of the chain it was given.     *)
InUseHead(req) ==
  IF req.proxyInfo = <<>> THEN {Null} ELSE {req.proxyInfo[1]}

Use(headOnly, req) == IF headOnly THEN InUseHead(req) ELSE InUse(req)

EventTypes == {"error", "stop"}

handleEvent(req, type, proxied, proxyInfo, status) ==
  LET after == EventEffect(type, proxied, proxyInfo, status, This, now)
      fired == [req EXCEPT !.events = req.events \cup {type}]
  IN
  /\ BagIn(req, inflight)
  /\ type \notin req.events
  /\ after.directFailures <= MAX_DIRECT_FAILURES + 1 + ExtraFailures
  /\ errors' = after.errors
  /\ disabledTime' = after.disabledTime
  /\ directFailures' = after.directFailures
  /\ inflight' =
       IF fired.events = EventTypes
       THEN inflight (-) SetToBag({req})
       ELSE (inflight (-) SetToBag({req})) (+) SetToBag({fired})
  /\ out' = NoOut
  /\ UNCHANGED <<monitor, pref, revision, now, started, contentErrors>>

(* ContentMonitor.observe for the one topic its startup registers.         *)
observe(topic, errorName) ==
  /\ started
  /\ topic = "remote-settings:sync-error"
  /\ contentErrors' =
       IF errorName = "InvalidSignatureError"
       THEN MapSet(contentErrors, REMOTE_SETTINGS, now)
       ELSE contentErrors
  /\ out' = NoOut
  /\ UNCHANGED <<monitor, pref, revision, now, started, errors, disabledTime,
                 directFailures, inflight>>

(* store() and restore(): the preference holds the JSON text of           *)
(* {directFailures, disabledTime, errors: Array.from(this.errors)}, here   *)
(* the parsed value with the entries of the Map as [key, value] pairs.     *)
NoPref == [set |-> FALSE]

Entries(m) == {<<k, m[k]>> : k \in DOMAIN m}

FromEntries(e) == [k \in {x[1] : x \in e} |-> (CHOOSE x \in e : x[1] = k)[2]]

store(this) ==
  [set |-> TRUE,
   data |-> [directFailures |-> this.directFailures,
             disabledTime |-> this.disabledTime,
             errors |-> Entries(this.errors)]]

(* restore reading the records and the trip time only.                     *)
restore_withoutDirectFailures(this, p) ==
  IF p.set
  THEN [this EXCEPT !.errors = FromEntries(p.data.errors),
                    !.disabledTime = p.data.disabledTime]
  ELSE this

restore(this, p) ==
  IF p.set
  THEN [errors |-> FromEntries(p.data.errors),
        disabledTime |-> p.data.disabledTime,
        directFailures |-> p.data.directFailures]
  ELSE this

(* A preference whose text is not JSON, and JSON.parse in restore, which   *)
(* throws a SyntaxError for it; neither restore nor startup catches it.    *)
Unparsable == [set |-> TRUE, text |-> "not JSON"]

restoreThrows(p) == p.set /\ "data" \notin DOMAIN p

(* startup without its call of restore.                                    *)
startup_noRestore ==
  /\ ~started
  /\ started' = TRUE
  /\ monitor' = [monitor EXCEPT !.filter = TRUE]
  /\ out' = NoOut
  /\ UNCHANGED <<pref, revision, now, errors, disabledTime, directFailures,
                 contentErrors, inflight>>

(* ProxyMonitor.startup, with ContentMonitor.startup beside it.            *)
startup ==
  LET throws == restoreThrows(pref)
      after == IF throws THEN This ELSE restore(This, pref)
  IN
  /\ ~started
  /\ started' = TRUE
  /\ monitor' = [monitor EXCEPT !.filter = TRUE]
  /\ errors' = after.errors
  /\ disabledTime' = after.disabledTime
  /\ directFailures' = after.directFailures
  /\ out' = IF throws THEN [op |-> "startup", completion |-> "throw"]
            ELSE NoOut
  /\ UNCHANGED <<pref, revision, now, contentErrors, inflight>>

shutdown ==
  /\ started
  /\ started' = FALSE
  /\ monitor' = [monitor EXCEPT !.filter = FALSE]
  /\ pref' = store(This)
  /\ out' = NoOut
  /\ UNCHANGED <<revision, now, errors, disabledTime, directFailures,
                 contentErrors, inflight>>

(* The clock moves on between two operations.                              *)
Tick(d) ==
  /\ now + d <= MaxNow
  /\ now' = now + d
  /\ out' = NoOut
  /\ UNCHANGED <<monitor, pref, revision, started, errors, disabledTime,
                 directFailures, contentErrors, inflight>>

(* Time passes until the clock reads t.                                    *)
TickTo(t) ==
  /\ now < t
  /\ now' = t
  /\ out' = NoOut
  /\ UNCHANGED <<monitor, pref, revision, started, errors, disabledTime,
                 directFailures, contentErrors, inflight>>

----------------------------------------------------------------------------
(* The telemetry revision (lines 690-1227): direct is put in front of the  *)
(* default chain instead of dropping the proxies, there is no direct       *)
(* failure count, and disableProxyInfo trips the breaker only when it is   *)
(* not set.  pruneProxyInfo, proxyDisabled, tooManyFailures, reset and     *)
(* enableProxyInfo change the state as above.                              *)

(* newDirectProxyInfo(defaultProxyInfo): the new node links to the head of *)
(* the default chain.                                                      *)
PrependLinks(chain) ==
  [i \in 1..(Len(chain) + 1) |->
     IF i <= Len(chain) THEN DefaultLinks(chain)[i] ELSE 1]

(* recordEvent(method, obj): the call of Services.telemetry.recordEvent is  *)
(* in a try block whose catch reports the error, so the call returns       *)
(* whether the sink throws or not.  log lists the emissions attempted.     *)
recordEvent_uncaught(log, method, obj, sinkThrows) ==
  [completion |-> IF sinkThrows THEN "throw" ELSE "return",
   log |-> Append(log, <<method, obj>>)]

recordEvent(log, method, obj, sinkThrows) ==
  [completion |-> "return", log |-> Append(log, <<method, obj>>)]

(* logProxySource(state, proxyInfo): an async function that is not         *)
(* awaited; what it throws rejects its promise and reaches no caller.      *)
logProxySource(log, state, sinkThrows) ==
  recordEvent(log, state, "proxyInfo", sinkThrows).log

tooManyFailures_telemetry(this, t, log, sinkThrows) ==
  IF this.disabledTime # 0
     /\ hoursSince(this.disabledTime, t) >= DISABLE_HOURS
  THEN LET e == recordEvent(log, "timeout", "proxyBypass", sinkThrows) IN
       IF e.completion = "throw"
       THEN [completion |-> "throw", value |-> FALSE, this |-> this,
             log |-> e.log]
       ELSE [completion |-> "return", value |-> FALSE,
             this |-> reset(this), log |-> e.log]
  ELSE [completion |-> "return", value |-> this.disabledTime # 0,
        this |-> this, log |-> log]

proxyDisabled_telemetry(proxyInfo, errs, t, log, sinkThrows) ==
  LET key == getProxyInfoKey(proxyInfo)
      no == [completion |-> "return", disabled |-> FALSE, errors |-> errs,
             log |-> log]
  IN
  IF key = NoKey THEN no
  ELSE IF key \notin DOMAIN errs THEN no
  ELSE IF hoursSince(errs[key].time, t) >= DISABLE_HOURS
       THEN LET e == recordEvent(log, "timeout", "proxyInfo", sinkThrows) IN
            [completion |-> e.completion, disabled |-> FALSE,
             errors |-> MapDelete(errs, key), log |-> e.log]
       ELSE [no EXCEPT !.disabled = TRUE]

RECURSIVE PruneWalk_telemetry(_, _, _, _, _, _, _)
PruneWalk_telemetry(chain, i, enabled, errs, t, log, sinkThrows) ==
  IF i > Len(chain)
  THEN [completion |-> "return", enabledProxies |-> enabled, errors |-> errs,
        log |-> log]
  ELSE LET d == proxyDisabled_telemetry(chain[i], errs, t, log, sinkThrows) IN
       IF d.completion = "throw"
       THEN [completion |-> "throw", enabledProxies |-> enabled,
             errors |-> d.errors, log |-> d.log]
       ELSE PruneWalk_telemetry(chain, i + 1,
                                IF d.disabled THEN enabled
                                ELSE Append(enabled, i),
                                d.errors, t, d.log, sinkThrows)

pruneProxyInfo_telemetry(chain, errs, t, log, sinkThrows) ==
  LET w == PruneWalk_telemetry(chain, 1, <<>>, errs, t, log, sinkThrows) IN
  [completion |-> w.completion,
   enabledProxies |-> w.enabledProxies,
   failoverProxy |-> IF w.completion = "throw" THEN DefaultLinks(chain)
                     ELSE Relink(chain, w.enabledProxies),
   errors |-> w.errors,
   log |-> w.log]

TryBlock_telemetry(channel, chain, this, t, sinkThrows) ==
  LET n == Len(chain)
      asIs == [completion |-> "return", path |-> "nodefault",
               head |-> IF n = 0 THEN 0 ELSE 1, links |-> DefaultLinks(chain),
               this |-> this, contentErrors |-> EmptyMap, listening |-> FALSE,
               log |-> <<>>]
  IN
  IF n = 0 THEN asIs
  ELSE IF ~channel.isSystem THEN [asIs EXCEPT !.path = "notsystem"]
  ELSE IF channel.throws = "ChannelWrapper"
  THEN [asIs EXCEPT !.completion = "throw", !.path = "exception"]
  ELSE
  LET tmf == tooManyFailures_telemetry(this, t, <<>>, sinkThrows) IN
  IF tmf.completion = "throw"
  THEN [asIs EXCEPT !.completion = "throw", !.path = "exception",
                    !.listening = TRUE, !.this = tmf.this, !.log = tmf.log]
  ELSE IF tmf.value
  THEN IF channel.throws = "newProxyInfo"
       THEN [asIs EXCEPT !.completion = "throw", !.path = "exception",
                         !.listening = TRUE, !.this = tmf.this,
                         !.log = tmf.log]
       ELSE [asIs EXCEPT !.path = "bypass", !.listening = TRUE,
                         !.head = n + 1, !.links = PrependLinks(chain),
                         !.this = tmf.this, !.log = tmf.log]
  ELSE
  LET p == pruneProxyInfo_telemetry(chain, tmf.this.errors, t, tmf.log,
                                    sinkThrows)
      enabledProxies == p.enabledProxies
      after == [tmf.this EXCEPT !.errors = p.errors]
  IN
  IF p.completion = "throw"
  THEN [asIs EXCEPT !.completion = "throw", !.path = "exception",
                    !.listening = TRUE, !.this = after, !.log = p.log]
  ELSE IF Len(enabledProxies) = 0
  THEN IF channel.throws = "newProxyInfo"
       THEN [asIs EXCEPT !.completion = "throw", !.path = "exception",
                         !.listening = TRUE, !.this = after, !.log = p.log]
       ELSE [asIs EXCEPT !.path = "alldisabled", !.listening = TRUE,
                         !.head = n + 1, !.links = PrependLinks(chain),
                         !.this = after, !.log = p.log]
  ELSE
  LET lastFailover == enabledProxies[Len(enabledProxies)]
      pruned == [asIs EXCEPT !.path = "pruned", !.listening = TRUE,
                             !.head = enabledProxies[1],
                             !.links = p.failoverProxy,
                             !.this = after, !.log = p.log]
  IN
  IF p.failoverProxy[lastFailover] # 0
     \/ chain[lastFailover].type # PROXY_DIRECT
  THEN IF channel.throws = "newProxyInfo"
       THEN [pruned EXCEPT !.completion = "throw", !.path = "exception"]
       ELSE [pruned EXCEPT !.links[lastFailover] = n + 1]
  ELSE pruned

FilterCall_telemetry(channel, chain, sinkThrows) ==
  Finally(TryBlock_telemetry(channel, chain, This, now, sinkThrows), chain)

(* The ghost record of a call that attempted the emissions in log.         *)
WithTelemetry(o, log, sinkThrows) ==
  IF log = <<>> THEN o
  ELSE [telemetry |-> log, sinkThrew |-> sinkThrows] @@ o

Telemetry(o) == IF "telemetry" \in DOMAIN o THEN o.telemetry ELSE <<>>

applyFilterSink_telemetry(channel, defaultProxyInfo, sinkThrows) ==
  \E f \in {FilterCall_telemetry(channel, defaultProxyInfo, sinkThrows)} :
  /\ started
  /\ f.listening => BagCardinality(inflight) < MaxInFlight
  /\ errors' = f.this.errors
  /\ disabledTime' = f.this.disabledTime
  /\ inflight' =
       IF f.listening
       THEN inflight (+) SetToBag({[proxyInfo |->
                                      Delivered(defaultProxyInfo, f.links,
                                                f.head),
                                    events |-> {}]})
       ELSE inflight
  /\ out' = WithTelemetry([op |-> "applyFilter",
                           defaultProxyInfo |-> defaultProxyInfo,
                           path |-> f.path, links |-> f.links,
                           calls |-> f.calls], f.log, sinkThrows)
  /\ UNCHANGED <<monitor, pref, revision, now, started, directFailures, contentErrors>>

(* The same with a telemetry sink that works.                              *)
applyFilter_telemetry(channel, defaultProxyInfo) ==
  applyFilterSink_telemetry(channel, defaultProxyInfo, FALSE)

(* store() and restore() of this revision: a pristine state clears the    *)
(* preference, and restore() without a preference resets the state.        *)
store_telemetry(this) ==
  IF this.disabledTime = 0 /\ Cardinality(DOMAIN this.errors) = 0
  THEN NoPref
  ELSE [set |-> TRUE,
        data |-> [disabledTime |-> this.disabledTime,
                  errors |-> Entries(this.errors)]]

restore_telemetry(this, p) ==
  IF p.set
  THEN [this EXCEPT !.errors = FromEntries(p.data.errors),
                    !.disabledTime = p.data.disabledTime]
  ELSE [this EXCEPT !.errors = EmptyMap, !.disabledTime = 0]

(* monitor.startMonitors and monitor.stopMonitors: started is              *)
(* monitor.running.                                                        *)
startup_telemetry ==
  LET after == restore_telemetry(This, pref) IN
  /\ ~started
  /\ started' = TRUE
  /\ monitor' = [monitor EXCEPT !.filter = TRUE]
  /\ errors' = after.errors
  /\ disabledTime' = after.disabledTime
  /\ out' = NoOut
  /\ UNCHANGED <<pref, revision, now, directFailures, contentErrors, inflight>>

shutdown_telemetry ==
  /\ started
  /\ started' = FALSE
  /\ monitor' = [monitor EXCEPT !.filter = FALSE]
  /\ pref' = store_telemetry(This)
  /\ out' = NoOut
  /\ UNCHANGED <<revision, now, errors, disabledTime, directFailures,
                 contentErrors, inflight>>

(* "remove old entries": the for loop of disableProxyInfo.                 *)
RemoveOld(errs, t) ==
  [k \in {x \in DOMAIN errs : ~(hoursSince(errs[x].time, t) >= DISABLE_HOURS)}
     |-> errs[k]]

disableProxyInfo_telemetry(proxyInfo, this, t, sinkThrows) ==
  LET key == getProxyInfoKey(proxyInfo) IN
  IF key = NoKey
  THEN [completion |-> "return", this |-> this, log |-> <<>>]
  ELSE LET errs == MapSet(RemoveOld(this.errors, t), key, [time |-> t])
           log == logProxySource(<<>>, "disabled", sinkThrows)
       IN
       IF this.disabledTime = 0 /\ Cardinality(DOMAIN errs) >= MAX_DISABLED_PI
       THEN LET e == recordEvent(log, "start", "proxyBypass", sinkThrows) IN
            [completion |-> e.completion,
             this |-> [this EXCEPT !.errors = errs, !.disabledTime = t],
             log |-> e.log]
       ELSE [completion |-> "return",
             this |-> [this EXCEPT !.errors = errs],
             log |-> log]

enableProxyInfo_telemetry(proxyInfo, this, sinkThrows) ==
  LET key == getProxyInfoKey(proxyInfo) IN
  IF key # NoKey /\ key \in DOMAIN this.errors
  THEN [completion |-> "return",
        this |-> [this EXCEPT !.errors = MapDelete(this.errors, key)],
        log |-> logProxySource(<<>>, "enabled", sinkThrows)]
  ELSE [completion |-> "return", this |-> this, log |-> <<>>]

EventEffect_telemetry(type, proxied, proxyInfo, status, this, t, sinkThrows) ==
  IF ~proxied THEN [completion |-> "return", this |-> this, log |-> <<>>]
  ELSE IF type = "error"
  THEN disableProxyInfo_telemetry(proxyInfo, this, t, sinkThrows)
  ELSE IF type = "start" /\ status >= 200 /\ status < 400
  THEN enableProxyInfo_telemetry(proxyInfo, this, sinkThrows)
  ELSE [completion |-> "return", this |-> this, log |-> <<>>]

EventTypes_telemetry == {"error", "start"}

handleEventSink_telemetry(req, type, proxied, proxyInfo, status, sinkThrows) ==
  \E e \in {EventEffect_telemetry(type, proxied, proxyInfo, status, This,
                                   now, sinkThrows)} :
  LET after == e.this
      fired == [req EXCEPT !.events = req.events \cup {type}]
  IN
  /\ BagIn(req, inflight)
  /\ type \notin req.events
  /\ errors' = after.errors
  /\ disabledTime' = after.disabledTime
  /\ inflight' =
       IF fired.events = EventTypes_telemetry
       THEN inflight (-) SetToBag({req})
       ELSE (inflight (-) SetToBag({req})) (+) SetToBag({fired})
  /\ out' = WithTelemetry(NoOut, e.log, sinkThrows)
  /\ UNCHANGED <<monitor, pref, revision, now, started, directFailures, contentErrors>>

handleEvent_telemetry(req, type, proxied, proxyInfo, status) ==
  handleEventSink_telemetry(req, type, proxied, proxyInfo, status, FALSE)

(* The outcome events, handled while the telemetry sink works or throws.   *)
EventsSink_telemetry(headOnly, codes) ==
  \E sinkThrows \in BOOLEAN, req \in BagToSet(inflight) :
     \/ \E proxyInfo \in Use(headOnly, req) :
           handleEventSink_telemetry(req, "error", TRUE, proxyInfo, 0,
                                     sinkThrows)
     \/ \E proxyInfo \in Use(headOnly, req), status \in codes :
           handleEventSink_telemetry(req, "start", TRUE, proxyInfo, status,
                                     sinkThrows)
     \/ \E type \in EventTypes_telemetry :
           handleEventSink_telemetry(req, type, FALSE, Null, 0, sinkThrows)

Events_telemetry(headOnly, codes) ==
  \E req \in BagToSet(inflight) :
     \/ \E proxyInfo \in Use(headOnly, req) :
           handleEvent_telemetry(req, "error", TRUE, proxyInfo, 0)
     \/ \E proxyInfo \in Use(headOnly, req), status \in codes :
           handleEvent_telemetry(req, "start", TRUE, proxyInfo, status)
     \/ \E type \in EventTypes_telemetry :
           handleEvent_telemetry(req, type, FALSE, Null, 0)

----------------------------------------------------------------------------
(* The hard-reset revision (lines 1229-1596): a request is monitored when  *)
(* the wrapper cannot be modified by extensions, tooManyFailures resets    *)
(* everything after too many direct failures, a record counts its          *)
(* failures, and handleEvent ignores a channel without proxyInfo.          *)
(* pruneProxyInfo, proxyDisabled, reset, enableProxyInfo, store, restore,  *)
(* startup and shutdown are as in the last revision.                       *)

MAX_DISABLED_PI_reset == 10
MAX_DIRECT_FAILURES_reset == 20

tooManyFailures_resetAtThreshold(this, t) ==
  LET first == IF this.directFailures >= MAX_DIRECT_FAILURES_reset
                  /\ Cardinality(DOMAIN this.errors) # 0
               THEN reset(this)
               ELSE this
      after == IF first.disabledTime # 0
                  /\ hoursSince(first.disabledTime, t) >= DISABLE_HOURS
               THEN reset(first)
               ELSE first
  IN [value |-> after.disabledTime # 0, this |-> after]

tooManyFailures_reset(this, t) ==
  LET first == IF this.directFailures > MAX_DIRECT_FAILURES_reset
                  /\ Cardinality(DOMAIN this.errors) # 0
               THEN reset(this)
               ELSE this
      after == IF first.disabledTime # 0
                  /\ hoursSince(first.disabledTime, t) >= DISABLE_HOURS
               THEN reset(first)
               ELSE first
  IN [value |-> after.disabledTime # 0, this |-> after]

(* channel.isSystem stands for !wrapper.canModify here.                    *)
TryBlock_reset(channel, chain, this, t) ==
  LET n == Len(chain)
      asIs == [completion |-> "return", path |-> "nodefault",
               head |-> IF n = 0 THEN 0 ELSE 1, links |-> DefaultLinks(chain),
               this |-> this, contentErrors |-> EmptyMap, listening |-> FALSE]
  IN
  IF n = 0 THEN asIs
  ELSE IF channel.throws = "ChannelWrapper"
  THEN [asIs EXCEPT !.completion = "throw", !.path = "exception"]
  ELSE IF ~channel.isSystem THEN [asIs EXCEPT !.path = "notsystem"]
  ELSE
  LET tmf == tooManyFailures_reset(this, t) IN
  IF tmf.value
  THEN [asIs EXCEPT !.path = "bypass", !.listening = TRUE, !.head = 0,
                    !.this = tmf.this]
  ELSE
  LET p == pruneProxyInfo(chain, tmf.this.errors, t)
      enabledProxies == p.enabledProxies
      after == [tmf.this EXCEPT !.errors = p.errors]
  IN
  IF Len(enabledProxies) = 0
  THEN [asIs EXCEPT !.path = "alldisabled", !.listening = TRUE, !.head = 0,
                    !.this = after]
  ELSE
  LET lastFailover == enabledProxies[Len(enabledProxies)]
      pruned == [asIs EXCEPT !.path = "pruned", !.listening = TRUE,
                             !.head = enabledProxies[1],
                             !.links = p.failoverProxy,
                             !.this = after]
  IN
  IF p.failoverProxy[lastFailover] # 0
     \/ chain[lastFailover].type # PROXY_DIRECT
  THEN IF channel.throws = "newProxyInfo"
       THEN [pruned EXCEPT !.completion = "throw", !.path = "exception"]
       ELSE [pruned EXCEPT !.links[lastFailover] = n + 1]
  ELSE pruned

FilterCall_reset(channel, chain) ==
  Finally(TryBlock_reset(channel, chain, This, now), chain)

applyFilter_reset(channel, defaultProxyInfo) ==
  LET f == FilterCall_reset(channel, defaultProxyInfo) IN
  /\ started
  /\ f.listening => BagCardinality(inflight) < MaxInFlight
  /\ errors' = f.this.errors
  /\ disabledTime' = f.this.disabledTime
  /\ directFailures' = f.this.directFailures
  /\ inflight' =
       IF f.listening
       THEN inflight (+) SetToBag({[proxyInfo |->
                                      Delivered(defaultProxyInfo, f.links,
                                                f.head),
                                    events |-> {}]})
       ELSE inflight
  /\ out' = [op |-> "applyFilter", defaultProxyInfo |-> defaultProxyInfo,
             path |-> f.path, links |-> f.links, calls |-> f.calls,
             entry |-> This]
  /\ UNCHANGED <<monitor, pref, revision, now, started, contentErrors>>

disableProxyInfo_reset(proxyInfo, this, t) ==
  LET key == getProxyInfoKey(proxyInfo) IN
  IF key = NoKey
  THEN [this EXCEPT !.directFailures = this.directFailures + 1]
  ELSE LET err == IF key \in DOMAIN this.errors
                  THEN [count |-> this.errors[key].count + 1, time |-> t]
                  ELSE [count |-> 1, time |-> t]
           errs == MapSet(this.errors, key, err)
       IN [this EXCEPT !.errors = errs,
                       !.disabledTime =
                          IF Cardinality(DOMAIN errs) >= MAX_DISABLED_PI_reset
                          THEN t ELSE this.disabledTime]

EventEffect_reset(type, proxied, proxyInfo, status, this, t) ==
  IF ~proxied \/ proxyInfo = Null THEN this
  ELSE IF type = "error" THEN disableProxyInfo_reset(proxyInfo, this, t)
  ELSE IF type = "stop" /\ status >= 200 /\ status < 400
  THEN enableProxyInfo(proxyInfo, this)
  ELSE this

handleEvent_reset(req, type, proxied, proxyInfo, status) ==
  LET after == EventEffect_reset(type, proxied, proxyInfo, status, This, now)
      fired == [req EXCEPT !.events = req.events \cup {type}]
  IN
  /\ BagIn(req, inflight)
  /\ type \notin req.events
  /\ after.directFailures <= MAX_DIRECT_FAILURES_reset + 1 + ExtraFailures
  /\ \A k \in DOMAIN after.errors : after.errors[k].count <= MaxCount
  /\ errors' = after.errors
  /\ disabledTime' = after.disabledTime
  /\ directFailures' = after.directFailures
  /\ inflight' =
       IF fired.events = EventTypes
       THEN inflight (-) SetToBag({req})
       ELSE (inflight (-) SetToBag({req})) (+) SetToBag({fired})
  /\ out' = NoOut
  /\ UNCHANGED <<monitor, pref, revision, now, started, contentErrors>>

Events_reset(headOnly, codes) ==
  \E req \in BagToSet(inflight) :
     \/ \E proxyInfo \in Use(headOnly, req) :
           handleEvent_reset(req, "error", TRUE, proxyInfo, 0)
     \/ \E proxyInfo \in Use(headOnly, req), status \in codes :
           handleEvent_reset(req, "stop", TRUE, proxyInfo, status)
     \/ \E type \in EventTypes :
           handleEvent_reset(req, type, FALSE, Null, 0)

----------------------------------------------------------------------------
(* The specifications.                                                     *)

(* The extensions: one installed by the user, for which "proxy" is a       *)
(* permission that can be granted and removed, and one provided by the     *)
(* application, which holds it.                                            *)
UserExtension == "user"
AppExtension == "app"
ExtensionIds == {UserExtension, AppExtension}
NoId == "none"

isAppProvided(extension) == extension = AppExtension

(* The monitor object and what it registered, before the API's onStartup:  *)
(* the failover preference (true by default), the active extensions and    *)
(* the ones holding the proxy permission, monitor.running, whether the     *)
(* API is loaded, whether the extension-event listener and the preference  *)
(* observer are registered, how many times ContentMonitor is registered    *)
(* as an observer, whether the application is shutting down, the last      *)
(* ProxyMonitor call made and whether the calls alternated so far, how the *)
(* last handler completed and what it threw, and whether the channel       *)
(* filter is registered with the protocol proxy service.                   *)
MonitorInit ==
  [failoverEnabled |-> TRUE, active |-> {}, proxy |-> {AppExtension},
   running |-> FALSE, api |-> FALSE, listening |-> FALSE, filter |-> FALSE,
   observing |-> FALSE, observers |-> 0, shuttingDown |-> FALSE,
   lastCall |-> "none", alternate |-> TRUE, completion |-> "return",
   error |-> "none"]

(* What a handler of the monitor reads and writes.                         *)
World ==
  [m |-> [monitor EXCEPT !.completion = "return", !.error = "none"],
   started |-> started, this |-> This, pref |-> pref]

(* ProxyMonitor.startup and ProxyMonitor.shutdown of lines 1082-1096, as   *)
(* calls: neither tests anything; restore throws on a text that is not     *)
(* JSON, after the filter was registered.  started: the channel filter is  *)
(* registered.                                                             *)
ProxyMonitorStartup_telemetry(w) ==
  [w EXCEPT !.started = TRUE,
            !.m.filter = TRUE,
            !.this = IF restoreThrows(w.pref) THEN w.this
                     ELSE restore_telemetry(w.this, w.pref),
            !.m.lastCall = "startup",
            !.m.alternate = w.m.alternate /\ w.m.lastCall # "startup",
            !.m.completion = IF restoreThrows(w.pref) THEN "throw"
                             ELSE "return",
            !.m.error = IF restoreThrows(w.pref) THEN "SyntaxError"
                        ELSE "none"]

ProxyMonitorShutdown_telemetry(w) ==
  [w EXCEPT !.started = FALSE,
            !.m.filter = FALSE,
            !.pref = store_telemetry(w.this),
            !.m.lastCall = "shutdown",
            !.m.alternate = w.m.alternate /\ w.m.lastCall = "startup"]

startMonitors(w) ==
  IF ~w.m.running
  THEN IF restoreThrows(w.pref)
       THEN ProxyMonitorStartup_telemetry(w)
       ELSE [ProxyMonitorStartup_telemetry(w) EXCEPT !.m.running = TRUE]
  ELSE w

stopMonitors(w) ==
  IF w.m.running
  THEN [ProxyMonitorShutdown_telemetry(w) EXCEPT !.m.running = FALSE]
  ELSE w

hasProxyExtension_telemetry(m, ignore) ==
  \E id \in m.active :
     id # ignore /\ ~isAppProvided(id) /\ id \in m.proxy

monitorStartup_telemetry(w) ==
  IF ~w.m.failoverEnabled THEN w
  ELSE IF hasProxyExtension_telemetry(w.m, NoId)
  THEN startMonitors([w EXCEPT !.m.listening = TRUE])
  ELSE [w EXCEPT !.m.listening = TRUE]

monitorShutdown_telemetry(w) ==
  stopMonitors([w EXCEPT !.m.listening = FALSE])

monitorObserve_telemetry(w) ==
  IF w.m.failoverEnabled THEN monitorStartup_telemetry(w)
  ELSE monitorShutdown_telemetry(w)

(* monitor.handleEvent(kind, ...args): extension is the extension of the   *)
(* event, added tells whether the change of permissions added "proxy".     *)
monitorHandleEvent_telemetry(kind, extension, added, w) ==
  IF kind = "startup"
  THEN IF ~w.m.running /\ ~isAppProvided(extension)
          /\ extension \in w.m.proxy
       THEN startMonitors(w) ELSE w
  ELSE IF kind = "shutdown"
  THEN IF w.m.shuttingDown THEN w
       ELSE IF w.m.running /\ ~isAppProvided(extension)
               /\ ~hasProxyExtension_telemetry(w.m, extension)
       THEN stopMonitors(w) ELSE w
  ELSE IF kind = "change-permissions"
  THEN IF w.m.running THEN w
       ELSE IF ~added THEN w
       ELSE IF extension \in w.m.active /\ ~isAppProvided(extension)
       THEN startMonitors(w) ELSE w
  ELSE w

(* The handler leaves the world w.                                         *)
Leaves(w) ==
  /\ monitor' = w.m
  /\ started' = w.started
  /\ errors' = w.this.errors
  /\ disabledTime' = w.this.disabledTime
  /\ directFailures' = w.this.directFailures
  /\ pref' = w.pref
  /\ out' = NoOut
  /\ UNCHANGED <<revision, now, contentErrors, inflight>>

(* failover.onStartup and failover.onShutdown (lines 1205-1227).           *)
onStartup_telemetry ==
  /\ ~monitor.api
  /\ ~monitor.shuttingDown
  /\ \E w \in {monitorStartup_telemetry([World EXCEPT !.m.api = TRUE])} :
        Leaves(IF w.m.completion = "throw" THEN w
               ELSE [w EXCEPT !.m.observing = TRUE])

onShutdown_telemetry ==
  /\ monitor.api
  /\ \E w \in {monitorShutdown_telemetry([World EXCEPT !.m.api = FALSE])} :
        Leaves([w EXCEPT !.m.observing = FALSE])

(* The failover preference changes; monitor.observe runs when the          *)
(* observer is registered.                                                 *)
PrefChanges_telemetry ==
  \E w \in {[World EXCEPT !.m.failoverEnabled = ~monitor.failoverEnabled]} :
     Leaves(IF monitor.observing THEN monitorObserve_telemetry(w) ELSE w)

(* An extension starts: its policy is active when "startup" is emitted.    *)
ExtensionStarts_telemetry(id) ==
  /\ id \notin monitor.active
  /\ ~monitor.shuttingDown
  /\ \E w \in {[World EXCEPT !.m.active = monitor.active \cup {id}]} :
        Leaves(IF monitor.listening
               THEN monitorHandleEvent_telemetry("startup", id, FALSE, w)
               ELSE w)

(* An extension shuts down: its policy is still active when "shutdown" is  *)
(* emitted, and inactive afterwards.                                       *)
ExtensionShutsDown_telemetry(id) ==
  /\ id \in monitor.active
  /\ \E w \in {IF monitor.listening
               THEN monitorHandleEvent_telemetry("shutdown", id, FALSE, World)
               ELSE World} :
        Leaves([w EXCEPT !.m.active = w.m.active \ {id}])

(* The "proxy" permission is granted to, or removed from, the active       *)
(* extension of the user.                                                  *)
PermissionsChange_telemetry(id, added) ==
  /\ id \in monitor.active
  /\ ~isAppProvided(id)
  /\ added <=> id \notin monitor.proxy
  /\ \E w \in {[World EXCEPT !.m.proxy = IF added THEN monitor.proxy \cup {id}
                                         ELSE monitor.proxy \ {id}]} :
        Leaves(IF monitor.listening
               THEN monitorHandleEvent_telemetry("change-permissions", id,
                                                 added, w)
               ELSE w)

(* The application starts to shut down (Services.startup.shuttingDown).    *)
Quit ==
  /\ ~monitor.shuttingDown
  /\ monitor' = [monitor EXCEPT !.shuttingDown = TRUE]
  /\ out' = NoOut
  /\ UNCHANGED <<pref, revision, now, started, errors, disabledTime,
                 directFailures, contentErrors, inflight>>

----------------------------------------------------------------------------
(* The activation of the revision at lines 1598-2058.                      *)

(* ProxyMonitor.startup and ProxyMonitor.shutdown (lines 1951-1973) as     *)
(* calls: both test this.started; restore throws after the filter was      *)
(* registered and this.started was set.                                    *)
ProxyMonitorStartup(w) ==
  IF w.started THEN w
  ELSE [w EXCEPT !.started = TRUE,
                 !.m.filter = TRUE,
                 !.this = IF restoreThrows(w.pref) THEN w.this
                          ELSE restore(w.this, w.pref),
                 !.m.lastCall = "startup",
                 !.m.alternate = w.m.alternate /\ w.m.lastCall # "startup",
                 !.m.completion = IF restoreThrows(w.pref) THEN "throw"
                                  ELSE "return",
                 !.m.error = IF restoreThrows(w.pref) THEN "SyntaxError"
                             ELSE "none"]

ProxyMonitorShutdown(w) ==
  IF ~w.started THEN w
  ELSE [w EXCEPT !.started = FALSE,
                 !.m.filter = FALSE,
                 !.pref = store(w.this),
                 !.m.lastCall = "shutdown",
                 !.m.alternate = w.m.alternate /\ w.m.lastCall = "startup"]

(* ContentMonitor.startup and ContentMonitor.shutdown (lines 1654-1660):   *)
(* the observer service keeps one entry for each addObserver, and          *)
(* removeObserver throws NS_ERROR_FAILURE when it finds no entry.          *)
ContentMonitorStartup(w) == [w EXCEPT !.m.observers = @ + 1]

ContentMonitorShutdown(w) ==
  IF w.m.observers = 0
  THEN [w EXCEPT !.m.completion = "throw", !.m.error = "NS_ERROR_FAILURE"]
  ELSE [w EXCEPT !.m.observers = @ - 1]

hasProxyExtension(m) == \E id \in m.active : id \in m.proxy

isSystemAddon(addon) == addon = AppExtension

shouldMonitor(addon, m) == ~isSystemAddon(addon) /\ addon \in m.proxy

(* monitor.startup: an exception of ProxyMonitor.startup leaves it before  *)
(* ContentMonitor.startup.                                                 *)
monitorStartup(w) ==
  IF ~w.m.failoverEnabled THEN w
  ELSE IF ~hasProxyExtension(w.m) THEN [w EXCEPT !.m.listening = TRUE]
  ELSE IF ~w.started /\ restoreThrows(w.pref)
  THEN ProxyMonitorStartup([w EXCEPT !.m.listening = TRUE])
  ELSE ContentMonitorStartup(
         ProxyMonitorStartup([w EXCEPT !.m.listening = TRUE]))

monitorShutdown(w) ==
  ContentMonitorShutdown(
    ProxyMonitorShutdown([w EXCEPT !.m.listening = FALSE]))

monitorObserve(w) ==
  IF w.m.failoverEnabled THEN monitorStartup(w) ELSE monitorShutdown(w)

onEnabled(addon, w) ==
  IF shouldMonitor(addon, w.m) THEN ProxyMonitorStartup(w) ELSE w

onDisabled(addon, w) ==
  IF ~hasProxyExtension(w.m) THEN ProxyMonitorShutdown(w) ELSE w

onInstalled(addon, w) ==
  IF shouldMonitor(addon, w.m) THEN ProxyMonitorStartup(w) ELSE w

onUninstalled(addon, w) ==
  IF ~hasProxyExtension(w.m) THEN ProxyMonitorShutdown(w) ELSE w

(* failover.onStartup and failover.onShutdown (lines 2048-2058): an        *)
(* exception of monitor.startup or monitor.shutdown leaves the handler     *)
(* before the preference observer is added or removed.  The objects of     *)
(* one load of the API are followed: the API is loaded again only after    *)
(* an unload that removed the preference observer.                         *)
onStartup ==
  /\ ~monitor.api
  /\ ~monitor.observing
  /\ \E w \in {monitorStartup([World EXCEPT !.m.api = TRUE])} :
        Leaves(IF w.m.completion = "throw" THEN w
               ELSE [w EXCEPT !.m.observing = TRUE])

onShutdown ==
  /\ monitor.api
  /\ \E w \in {monitorShutdown([World EXCEPT !.m.api = FALSE])} :
        Leaves(IF w.m.completion = "throw" THEN w
               ELSE [w EXCEPT !.m.observing = FALSE])

(* The failover preference changes; monitor.observe runs when the          *)
(* observer is registered.                                                 *)
PrefChanges ==
  \E w \in {[World EXCEPT !.m.failoverEnabled = ~monitor.failoverEnabled]} :
     Leaves(IF monitor.observing THEN monitorObserve(w) ELSE w)

(* The events of the add-on manager.  An add-on that is not active is      *)
(* disabled or not installed; its policy is active when onEnabled and      *)
(* onInstalled are called and no longer active when onDisabled and         *)
(* onUninstalled are.  holds: the installed add-on asks for "proxy".       *)
AddonEnabled(id) ==
  /\ id \notin monitor.active
  /\ \E w \in {[World EXCEPT !.m.active = monitor.active \cup {id}]} :
        Leaves(IF monitor.listening THEN onEnabled(id, w) ELSE w)

AddonInstalled(id, holds) ==
  /\ id \notin monitor.active
  /\ \E w \in {[World EXCEPT !.m.active = monitor.active \cup {id},
                             !.m.proxy = IF holds THEN monitor.proxy \cup {id}
                                         ELSE monitor.proxy \ {id}]} :
        Leaves(IF monitor.listening THEN onInstalled(id, w) ELSE w)

AddonDisabled(id) ==
  /\ id \in monitor.active
  /\ \E w \in {[World EXCEPT !.m.active = monitor.active \ {id}]} :
        Leaves(IF monitor.listening THEN onDisabled(id, w) ELSE w)

AddonUninstalled(id) ==
  /\ id \in monitor.active
  /\ \E w \in {[World EXCEPT !.m.active = monitor.active \ {id}]} :
        Leaves(IF monitor.listening THEN onUninstalled(id, w) ELSE w)

Pristine ==
  /\ pref = NoPref
  /\ now = StartTime
  /\ started = FALSE
  /\ errors = EmptyMap
  /\ disabledTime = 0
  /\ directFailures = 0
  /\ contentErrors = EmptyMap
  /\ inflight = EmptyBag
  /\ monitor = MonitorInit
  /\ out = NoOut

Init == revision = "probe" /\ Pristine

Init_telemetry == revision = "telemetry" /\ Pristine

(* The outcome events of the monitored requests.                           *)
Events(headOnly, codes) ==
  \E req \in BagToSet(inflight) :
     \/ \E proxyInfo \in Use(headOnly, req) :
           handleEvent(req, "error", TRUE, proxyInfo, 0)
     \/ \E proxyInfo \in Use(headOnly, req), status \in codes :
           handleEvent(req, "stop", TRUE, proxyInfo, status)
     \/ \E type \in EventTypes :
           handleEvent(req, type, FALSE, Null, 0)

Next ==
  \/ startup
  \/ \E d \in ClockSteps : Tick(d)
  \/ \E channel \in ContentChannels, chain \in Chains :
        applyFilter(channel, chain)
  \/ Events(FALSE, StatusCodes)
  \/ \E errorName \in ErrorNames :
        observe("remote-settings:sync-error", errorName)

Spec == Init /\ [][Next]_vars

NextBreaker ==
  \/ startup
  \/ \E d \in ClockSteps : Tick(d)
  \/ \E channel \in Channels, chain \in BreakerChains :
        applyFilter(channel, chain)
  \/ Events(TRUE, BreakerCodes)

SpecBreaker == Init /\ [][NextBreaker]_vars

NextTelemetry ==
  \/ startup_telemetry
  \/ \E d \in {HalfWindow} : Tick(d)
  \/ \E channel \in Channels, chain \in BreakerChains :
        applyFilter_telemetry(channel, chain)
  \/ Events_telemetry(FALSE, BreakerCodes)

SpecTelemetry == Init_telemetry /\ [][NextTelemetry]_vars

(* The monitor is stopped and started again while requests are decided.    *)
NextLifecycle ==
  \/ startup
  \/ shutdown
  \/ \E d \in ClockSteps : Tick(d)
  \/ \E chain \in Chains :
        applyFilter(Channel(TRUE, "other", "none"), chain)
  \/ Events(TRUE, BreakerCodes)

SpecLifecycle == Init /\ [][NextLifecycle]_vars

(* Requests decided one after the other, for the one-shot probe.           *)
ProbeChains ==
  { <<Proxy("a"), Proxy("b"), Proxy("c"), Proxy("d"), Proxy("e")>> }

NextProbe ==
  \/ startup
  \/ \E d \in {HalfWindow} : Tick(d)
  \/ \E channel \in Channels, chain \in ProbeChains :
        applyFilter(channel, chain)
  \/ \E chain \in ProbeChains :
        applyFilterUntracked(Channel(TRUE, "other", "none"), chain)
  \/ Events(TRUE, BreakerCodes)

SpecProbe == Init /\ [][NextProbe]_vars

Init_reset == revision = "reset" /\ Pristine

ResetChains == { <<Proxy("a"), Proxy("b")>> }

NextReset ==
  \/ startup
  \/ \E d \in {HalfWindow} : Tick(d)
  \/ \E channel \in Channels, chain \in ResetChains :
        applyFilter_reset(channel, chain)
  \/ Events_reset(FALSE, BreakerCodes)

SpecReset == Init_reset /\ [][NextReset]_vars

(* The same, where the monitor never stops: a step is taken whenever one   *)
(* is possible.                                                            *)
NextResetLive ==
  \/ startup
  \/ \E d \in {HalfWindow} : Tick(d)
  \/ \E chain \in ResetChains :
        applyFilter_reset(Channel(TRUE, "other", "none"), chain)
  \/ Events_reset(TRUE, BreakerCodes)

SpecResetLive == Init_reset /\ [][NextResetLive]_vars /\ WF_vars(NextResetLive)

(* Monitored requests over chains that differ in order and in their tail,  *)
(* with failures and successes of any candidate of the chain delivered.    *)
PruneChains ==
  { <<Proxy("a"), Proxy("b")>>,
    <<Proxy("a"), Proxy("b"), Direct>>,
    <<Proxy("c"), Proxy("b"), Proxy("a"), Direct>> }

NextPrune ==
  \/ startup
  \/ \E d \in {HalfWindow} : Tick(d)
  \/ \E chain \in PruneChains :
        applyFilter(Channel(TRUE, "other", "none"), chain)
  \/ Events(FALSE, BreakerCodes)

SpecPrune == Init /\ [][NextPrune]_vars

(* Clock readings one hour before and one hour after DISABLE_HOURS have    *)
(* passed since construction, and one two hours after construction, so     *)
(* that records of both ages exist at the last reading.                    *)
WindowReadings ==
  { StartTime + 2 * TicksPerHour,
    StartTime + (DISABLE_HOURS - 1) * TicksPerHour,
    StartTime + (DISABLE_HOURS + 1) * TicksPerHour }

WindowChains == { <<Proxy("a"), Proxy("b")>> }

NextWindow ==
  \/ startup
  \/ \E t \in WindowReadings : TickTo(t)
  \/ \E chain \in WindowChains :
        applyFilter(Channel(TRUE, "other", "none"), chain)
  \/ Events(FALSE, BreakerCodes)

SpecWindow == Init /\ [][NextWindow]_vars

(* The monitor started in a profile whose preference is absent, holds a    *)
(* record stored earlier, or holds text that is not JSON.                  *)
StoredPrefs ==
  { NoPref,
    Unparsable,
    store([errors |-> MapSet(EmptyMap, getProxyInfoKey(Proxy("a")),
                             [time |-> StartTime]),
           disabledTime |-> 0,
           directFailures |-> 1]) }

Init_stored ==
  /\ revision = "probe"
  /\ pref \in StoredPrefs
  /\ now = StartTime
  /\ started = FALSE
  /\ errors = EmptyMap
  /\ disabledTime = 0
  /\ directFailures = 0
  /\ contentErrors = EmptyMap
  /\ inflight = EmptyBag
  /\ monitor = MonitorInit
  /\ out = NoOut

NextStored ==
  \/ startup
  \/ shutdown
  \/ \E chain \in WindowChains :
        applyFilter(Channel(TRUE, "other", "none"), chain)
  \/ Events(TRUE, BreakerCodes)

SpecStored == Init_stored /\ [][NextStored]_vars

(* Requests completing with status codes on both sides of each end of the  *)
(* success range, and with none (0).                                       *)
OutcomeCodes == StatusCodes \cup BreakerCodes \cup {0}

NextCodes ==
  \/ startup
  \/ \E chain \in WindowChains :
        applyFilter(Channel(TRUE, "other", "none"), chain)
  \/ Events(FALSE, OutcomeCodes)

SpecCodes == Init /\ [][NextCodes]_vars

(* The revision at lines 690-1227 with a telemetry sink that may throw on  *)
(* any emission.                                                           *)
NextSink ==
  \/ startup_telemetry
  \/ \E d \in {HalfWindow} : Tick(d)
  \/ \E chain \in ProbeChains, sinkThrows \in BOOLEAN :
        applyFilterSink_telemetry(Channel(TRUE, "other", "none"), chain,
                                  sinkThrows)
  \/ EventsSink_telemetry(FALSE, BreakerCodes)

SpecSink == Init_telemetry /\ [][NextSink]_vars

(* Either revision, chosen at construction.                                *)
InitRevisions == revision \in {"probe", "telemetry"} /\ Pristine

NextRevisions ==
  \/ revision = "probe" /\ NextBreaker
  \/ revision = "telemetry" /\ NextTelemetry

SpecRevisions == InitRevisions /\ [][NextRevisions]_vars

(* Either revision, stopped and started again between requests: shutdown   *)
(* stores the state in the preference and startup restores it.             *)
NextStore ==
  \/ \E d \in {HalfWindow} : Tick(d)
  \/ /\ revision = "probe"
     /\ \/ startup
        \/ shutdown
        \/ \E chain \in ProbeChains :
              applyFilter(Channel(TRUE, "other", "none"), chain)
        \/ Events(TRUE, BreakerCodes)
  \/ /\ revision = "telemetry"
     /\ \/ startup_telemetry
        \/ shutdown_telemetry
        \/ \E chain \in ProbeChains :
              applyFilter_telemetry(Channel(TRUE, "other", "none"), chain)
        \/ Events_telemetry(TRUE, BreakerCodes)

SpecStore == InitRevisions /\ [][NextStore]_vars

----------------------------------------------------------------------------
(* Properties.                                                             *)

IsApplyFilter == out.op = "applyFilter"

(* What a lookup of candidate c reports in the current state, without the  *)
(* eviction: proxyDisabled's return value.                                 *)
Disabled(c) == proxyDisabled(c, errors, now).disabled

Last(seq) == seq[Len(seq)]

(* C1: every call of applyFilter, whatever its exit path (no default       *)
(* chain, not a monitored request, bypass, probe, pruned chain, or an      *)
(* exception raised in the try block), has called                          *)
(* proxyFilter.onProxyFilterResult exactly once.                           *)
C1_ExactlyOneResult == IsApplyFilter => Len(out.calls) = 1

C1_Witness ==
  /\ IsApplyFilter
  /\ out.path = "exception"
  /\ Len(out.calls) = 1
  /\ inflight # EmptyBag

(* C2: on the pruning path the chain delivered is exactly the candidates   *)
(* of the default chain that are not disabled, in order, followed at most  *)
(* by the direct candidate applyFilter adds; no disabled candidate is      *)
(* reachable from the delivered head.                                      *)
Survivors(chain) == SelectSeq(chain, LAMBDA c : ~Disabled(c))

C2_DeliversSurvivors ==
  (IsApplyFilter /\ out.path = "pruned")
    => \/ out.calls[1] = Survivors(out.defaultProxyInfo)
       \/ out.calls[1] = Survivors(out.defaultProxyInfo) \o <<Direct>>

(* C3: every non-null chain delivered for a monitored request, on the      *)
(* probe path and on the pruned path, ends in a direct candidate with no   *)
(* successor.                                                              *)
C3_EndsInDirect ==
  (IsApplyFilter /\ out.path \in {"probe", "pruned"} /\ out.calls[1] # <<>>)
    => Last(out.calls[1]) = Direct

(* The window of DISABLE_HOURS, in clock ticks.                            *)
TTL == DISABLE_HOURS * TicksPerHour

(* The step is an applyFilter call that monitors its request and decides   *)
(* without raising an exception.                                           *)
Decision ==
  /\ out'.op = "applyFilter"
  /\ out'.path \in {"probe", "content", "bypass", "alldisabled", "pruned"}

DirectOnly(calls) == calls = << <<>> >>

(* C4: while the breaker is tripped (a trip time is stored and less than   *)
(* DISABLE_HOURS have passed since it), every monitored request is given   *)
(* the direct-only (null) result, whatever the state of its chain and      *)
(* whatever the direct-failure count.                                      *)
C4_TrippedGivesDirectOnly ==
  [][ (Decision /\ disabledTime # 0 /\ now - disabledTime < TTL)
        => DirectOnly(out'.calls) ]_vars

(* What a lookup of key k reports with registry errs at time t.            *)
KeyDisabled(k, errs, t) ==
  proxyDisabled([type |-> k[1], host |-> k[2], port |-> k[3]], errs, t).disabled

(* The step handles a qualifying success of a request that used key k.     *)
SuccessFor(k) ==
  \E req \in BagToSet(inflight) : \E proxyInfo \in InUse(req),
     status \in {c \in StatusCodes \cup BreakerCodes : c >= 200 /\ c < 400} :
     /\ getProxyInfoKey(proxyInfo) = k
     /\ handleEvent(req, "stop", TRUE, proxyInfo, status)

(* C5: a key with a recorded failure is reported disabled by every lookup  *)
(* until a qualifying success for it is handled or DISABLE_HOURS have      *)
(* passed since the failure, and is reported not disabled right after      *)
(* either; no other step enables it earlier.                               *)
C5_DisabledUntilSuccessOrTTL ==
  [][ \A k \in DOMAIN errors :
        /\ (now' - errors[k].time < TTL /\ ~SuccessFor(k))
             => KeyDisabled(k, errors', now')
        /\ SuccessFor(k) => ~KeyDisabled(k, errors', now')
        /\ now' - errors[k].time >= TTL /\ k \in DOMAIN errors'
             /\ errors'[k] = errors[k]
             => ~KeyDisabled(k, errors', now') ]_vars

(* The keys of errs whose record is younger than DISABLE_HOURS at time t.  *)
Live(errs, t) == {k \in DOMAIN errs : t - errs[k].time < TTL}

(* The step stores a trip time.                                            *)
Trips == disabledTime' # 0 /\ disabledTime' # disabledTime

(* The step is a failure that takes the number of disabled keys from       *)
(* MAX_DISABLED_PI - 1 to MAX_DISABLED_PI.                                 *)
ReachesThreshold ==
  /\ Cardinality(Live(errors, now)) = MAX_DISABLED_PI - 1
  /\ Cardinality(Live(errors', now')) = MAX_DISABLED_PI
  /\ now' = now

(* C6 (lines 690-1227): the trip time is stored exactly by the failure     *)
(* that takes the registry from MAX_DISABLED_PI - 1 to MAX_DISABLED_PI     *)
(* keys and by no other step; each such failure, when no trip time is      *)
(* stored or the stored one is DISABLE_HOURS old, stores the current time; *)
(* while a trip time younger than that is stored, no failure changes it.   *)
C6_TripsExactlyAtThreshold ==
  [][ /\ Trips => (ReachesThreshold /\ disabledTime' = now)
      /\ (ReachesThreshold
            /\ (disabledTime = 0 \/ now - disabledTime >= TTL))
           => (Trips /\ disabledTime' = now)
      /\ (disabledTime # 0 /\ now - disabledTime < TTL /\ now' = now
            /\ out'.op = "none")
           => disabledTime' = disabledTime ]_vars

(* The step handles a failure outcome (an "error" event on a proxied       *)
(* channel).                                                               *)
FailureOutcome ==
  \E req \in BagToSet(inflight) : \E proxyInfo \in InUse(req) :
     handleEvent(req, "error", TRUE, proxyInfo, 0)

(* C7: once the breaker has tripped, no failure handled while it is still  *)
(* tripped changes the stored trip time, and a request decided             *)
(* DISABLE_HOURS or more after the trip time is not bypassed for it.       *)
C7_TripTimeNotExtended ==
  [][ /\ (FailureOutcome /\ disabledTime # 0 /\ now - disabledTime < TTL)
           => disabledTime' = disabledTime
      /\ (Decision /\ disabledTime # 0 /\ now - disabledTime >= TTL)
           => out'.path # "bypass" ]_vars

(* C8: tooManyFailures, called in any state: with a trip time stored       *)
(* DISABLE_HOURS or more ago it clears errors, disabledTime and            *)
(* directFailures and returns false; with a younger trip time it returns   *)
(* true and changes nothing; with none it returns false and changes        *)
(* nothing.                                                                *)
C8_TooManyFailures ==
  LET r == tooManyFailures(This, now) IN
  IF disabledTime # 0 /\ now - disabledTime >= TTL
  THEN ~r.value /\ r.this = [errors |-> EmptyMap, disabledTime |-> 0,
                             directFailures |-> 0]
  ELSE IF disabledTime # 0
  THEN r.value /\ r.this = This
  ELSE ~r.value /\ r.this = This

(* C9: every qualifying success (a "stop" event with a status in           *)
(* [200, 400)) leaves directFailures at 0, whether or not the candidate    *)
(* used has a key.                                                         *)
C9_SuccessResetsDirectFailures ==
  [][ (\E req \in BagToSet(inflight) : \E proxyInfo \in InUse(req),
          status \in {c \in StatusCodes \cup BreakerCodes :
                        c >= 200 /\ c < 400} :
          handleEvent(req, "stop", TRUE, proxyInfo, status))
        => directFailures' = 0 ]_vars

(* C10: a failure outcome for a candidate with a key sets the key's record *)
(* to the current time and leaves directFailures alone; a failure outcome  *)
(* for a candidate without a key (direct, or none) adds one to             *)
(* directFailures and leaves errors and disabledTime alone.                *)
C10_FailureOutcome ==
  [][ \A req \in BagToSet(inflight) : \A proxyInfo \in InUse(req) :
        handleEvent(req, "error", TRUE, proxyInfo, 0)
          => LET key == getProxyInfoKey(proxyInfo) IN
             IF key # NoKey
             THEN /\ key \in DOMAIN errors'
                  /\ errors'[key] = [time |-> now]
                  /\ \A k \in DOMAIN errors \ {key} :
                        k \in DOMAIN errors' /\ errors'[k] = errors[k]
                  /\ DOMAIN errors' = DOMAIN errors \cup {key}
                  /\ directFailures' = directFailures
             ELSE /\ directFailures' = directFailures + 1
                  /\ errors' = errors
                  /\ disabledTime' = disabledTime ]_vars

C10_Witness ==
  /\ directFailures > 0
  /\ \E k \in DOMAIN errors : errors[k].time = now /\ now > StartTime
  /\ disabledTime # 0

(* The probe condition of applyFilter.                                     *)
ProbeDue == directFailures > MAX_DIRECT_FAILURES /\ DOMAIN errors # {}

(* C11: a monitored request decided while directFailures exceeds           *)
(* MAX_DIRECT_FAILURES and errors is not empty, and no other, is given the *)
(* default chain as it is; that decision sets directFailures to 0 and      *)
(* leaves errors and disabledTime alone, so the request decided right      *)
(* after it is bypassed or pruned again; and a failure outcome (the        *)
(* probe's included) leaves a stored trip time stored and every disabled   *)
(* key disabled.                                                           *)
C11_OneShotProbe ==
  [][ /\ Decision => (ProbeDue <=> out'.path = "probe")
      /\ (Decision /\ ProbeDue)
           => /\ out'.calls = <<out'.defaultProxyInfo>>
              /\ directFailures' = 0
              /\ errors' = errors
              /\ disabledTime' = disabledTime
      /\ (Decision /\ IsApplyFilter /\ out.path = "probe")
           => out'.path \in {"content", "bypass", "alldisabled", "pruned"}
      /\ FailureOutcome
           => /\ disabledTime # 0 => disabledTime' # 0
              /\ \A k \in DOMAIN errors :
                    KeyDisabled(k, errors, now) => KeyDisabled(k, errors', now')
    ]_vars

C11_Witness ==
  /\ IsApplyFilter
  /\ out.path = "probe"
  /\ out.calls = <<out.defaultProxyInfo>>
  /\ directFailures = 0
  /\ \A i \in 1..Len(out.defaultProxyInfo) : Disabled(out.defaultProxyInfo[i])
  /\ disabledTime # 0
  /\ now - disabledTime < TTL

(* The chain with a direct candidate appended unless it ends in one.       *)
WithDirectTail(chain) ==
  IF Last(chain) = Direct THEN chain ELSE chain \o <<Direct>>

(* The last call was an applyFilter of the revision at lines 1229-1596     *)
(* that monitored its request and raised no exception; out.entry is the    *)
(* state the call started in.                                              *)
Decided_reset ==
  /\ IsApplyFilter
  /\ out.path \in {"bypass", "alldisabled", "pruned"}

HardResetDue(this) ==
  this.directFailures > MAX_DIRECT_FAILURES_reset /\ DOMAIN this.errors # {}

(* C12 (lines 1229-1596): a decision made with directFailures >            *)
(* MAX_DIRECT_FAILURES and a non-empty registry first clears errors,       *)
(* disabledTime and directFailures, so the request is pruned against an    *)
(* empty registry and is given its whole default chain (with the direct    *)
(* tail); a decision made with directFailures <= MAX_DIRECT_FAILURES or an *)
(* empty registry, and no expired trip, leaves directFailures,             *)
(* disabledTime and every record that has not expired as they were.        *)
C12_HardReset ==
  Decided_reset =>
    IF HardResetDue(out.entry)
    THEN /\ errors = EmptyMap
         /\ disabledTime = 0
         /\ directFailures = 0
         /\ out.path = "pruned"
         /\ out.calls = <<WithDirectTail(out.defaultProxyInfo)>>
    ELSE (out.entry.disabledTime = 0
            \/ hoursSince(out.entry.disabledTime, now) < DISABLE_HOURS)
           => /\ directFailures = out.entry.directFailures
              /\ disabledTime = out.entry.disabledTime
              /\ \A k \in DOMAIN out.entry.errors :
                    hoursSince(out.entry.errors[k].time, now) < DISABLE_HOURS
                      => (k \in DOMAIN errors
                            /\ errors[k] = out.entry.errors[k])

C12_Witness ==
  /\ Decided_reset
  /\ HardResetDue(out.entry)
  /\ \E k \in DOMAIN out.entry.errors :
        hoursSince(out.entry.errors[k].time, now) < DISABLE_HOURS
  /\ errors = EmptyMap
  /\ out.calls = <<WithDirectTail(out.defaultProxyInfo)>>

(* The failure of a request that was given the no-proxy result (its        *)
(* channel has no proxyInfo) has just been handled.                        *)
BypassedFailure_reset ==
  \E req \in BagToSet(inflight) :
     req.proxyInfo = <<>> /\ "error" \in req.events

Bypassed_reset == IsApplyFilter /\ out.path \in {"bypass", "alldisabled"}

GivenProxies_reset == IsApplyFilter /\ out.path = "pruned"

C14_ExpiredCountAsAbsent ==
  [][ /\ \A req \in BagToSet(inflight) : \A proxyInfo \in InUse(req) :
           (handleEvent(req, "error", TRUE, proxyInfo, 0)
              /\ getProxyInfoKey(proxyInfo) # NoKey)
             => disabledTime' =
                  IF Cardinality(Live(errors', now')) >= MAX_DISABLED_PI
                  THEN now ELSE disabledTime
      /\ Decision
           => (out'.path = "probe"
                 <=> (directFailures > MAX_DIRECT_FAILURES
                        /\ Live(errors, now) # {})) ]_vars

(* The candidates of the delivered chain that are candidates of the        *)
(* default chain and are not disabled.                                     *)
DeliveredSurvivors ==
  SelectSeq(out.calls[1],
            LAMBDA c : /\ \E i \in 1..Len(out.defaultProxyInfo) :
                             out.defaultProxyInfo[i] = c
                       /\ ~Disabled(c))

(* C15: on the pruning path the candidates of the default chain that are   *)
(* not disabled occur in the delivered chain, each once, in the order they *)
(* have in the default chain.                                              *)
C15_PruningKeepsOrder ==
  (IsApplyFilter /\ out.path = "pruned")
    => DeliveredSurvivors = Survivors(out.defaultProxyInfo)

C15_Witness ==
  /\ IsApplyFilter
  /\ out.path = "pruned"
  /\ out.defaultProxyInfo[1] = Proxy("c")
  /\ Disabled(Proxy("b"))
  /\ DeliveredSurvivors = <<Proxy("c"), Proxy("a"), Direct>>

AllDisabled(chain) == \A i \in 1..Len(chain) : Disabled(chain[i])

NoneDisabled(chain) == \A i \in 1..Len(chain) : ~Disabled(chain[i])

(* C16: a monitored request that reaches pruning with no candidate of its  *)
(* chain disabled is given the chain as it was, every link as it was,      *)
(* with one new direct candidate linked after the tail exactly when the    *)
(* tail is not a direct candidate.                                         *)
C16_HealthyChainUnchanged ==
  (IsApplyFilter /\ out.path = "pruned"
     /\ NoneDisabled(out.defaultProxyInfo))
    => LET chain == out.defaultProxyInfo
           n == Len(chain)
       IN
       /\ out.calls = <<WithDirectTail(chain)>>
       /\ \A i \in 1..(n - 1) : out.links[i] = i + 1
       /\ out.links[n] = IF chain[n] = Direct THEN 0 ELSE n + 1

C16_Witness ==
  /\ IsApplyFilter
  /\ out.path = "pruned"
  /\ out.defaultProxyInfo = <<Proxy("a"), Proxy("b")>>
  /\ out.calls = << <<Proxy("a"), Proxy("b"), Direct>> >>
  /\ DOMAIN errors # {}

(* C17: a monitored request not on the probe path whose chain has every    *)
(* candidate disabled is given the no-proxy result, and every link of its  *)
(* default chain is as it was.                                             *)
C17_NoSurvivorsGivesDirectOnly ==
  (IsApplyFilter
     /\ out.path \in {"content", "bypass", "alldisabled", "pruned"}
     /\ AllDisabled(out.defaultProxyInfo))
    => /\ DirectOnly(out.calls)
       /\ out.links = DefaultLinks(out.defaultProxyInfo)

C17_Witness ==
  /\ IsApplyFilter
  /\ out.path = "alldisabled"
  /\ Len(out.defaultProxyInfo) = 2
  /\ AllDisabled(out.defaultProxyInfo)
  /\ DirectOnly(out.calls)

(* The expiry test of proxyDisabled and tooManyFailures applied to the     *)
(* stored time t in the current state.                                     *)
ExpiryTest(t) == hoursSince(t, now) >= DISABLE_HOURS

(* C18: for every stored time, of a record or of the trip, the expiry test *)
(* is true exactly when DISABLE_HOURS or more have passed since it; it is  *)
(* false at every age below that, sub-hour ages such as 47 h 45 min        *)
(* included.                                                               *)
C18_ExpiresAtFullWindow ==
  /\ \A k \in DOMAIN errors :
        ExpiryTest(errors[k].time) <=> (now - errors[k].time >= TTL)
  /\ disabledTime # 0
       => (ExpiryTest(disabledTime) <=> (now - disabledTime >= TTL))

(* The last call was an applyFilter that looked every candidate of its     *)
(* chain up (pruneProxyInfo ran), with no trip time stored.                *)
LookedUp ==
  /\ IsApplyFilter
  /\ out.path \in {"alldisabled", "pruned"}
  /\ out.entry.disabledTime = 0

CandidateKeys(chain) ==
  {getProxyInfoKey(chain[i]) : i \in 1..Len(chain)} \ {NoKey}

(* C19: a lookup DISABLE_HOURS - 1 hours after the failure recorded for    *)
(* key k reports k disabled and keeps its record; a lookup                 *)
(* DISABLE_HOURS + 1 hours after it reports k not disabled and removes     *)
(* k's record, and only k's; the lookups of a call leave directFailures,   *)
(* disabledTime and every record that has not expired as they were.        *)
C19_RecordLifetime ==
  LookedUp =>
    LET was == out.entry.errors IN
    /\ \A k \in DOMAIN was \cap CandidateKeys(out.defaultProxyInfo) :
          LET age == now - was[k].time IN
          /\ age = (DISABLE_HOURS - 1) * TicksPerHour
               => /\ KeyDisabled(k, was, now)
                  /\ k \in DOMAIN errors
                  /\ errors[k] = was[k]
          /\ age = (DISABLE_HOURS + 1) * TicksPerHour
               => /\ ~KeyDisabled(k, was, now)
                  /\ k \notin DOMAIN errors
                  /\ proxyDisabled([type |-> k[1], host |-> k[2],
                                    port |-> k[3]], was, now).errors
                       = MapDelete(was, k)
    /\ DOMAIN errors \subseteq DOMAIN was
    /\ \A j \in DOMAIN was :
          hoursSince(was[j].time, now) < DISABLE_HOURS
            => (j \in DOMAIN errors /\ errors[j] = was[j])
    /\ directFailures = out.entry.directFailures
    /\ disabledTime = out.entry.disabledTime

C19_Witness ==
  /\ LookedUp
  /\ \E k \in DOMAIN out.entry.errors :
        /\ now - out.entry.errors[k].time = (DISABLE_HOURS + 1) * TicksPerHour
        /\ k \notin DOMAIN errors
  /\ \E j \in DOMAIN errors :
        now - errors[j].time = (DISABLE_HOURS - 1) * TicksPerHour
  /\ directFailures > 0

ShutsDown == started /\ ~started'

(* C21: a shutdown from the pristine in-memory state (no trip time, no     *)
(* record, no direct failure counted) leaves no stored preference: store   *)
(* clears it instead of writing one.                                       *)
C21_PristineStoreClears ==
  [][ (ShutsDown /\ This = reset(This)) => pref' = NoPref ]_vars

(* The step is a startup.                                                  *)
StartsUp == ~started /\ started'

(* The in-memory state a stored preference p holds.                        *)
Snapshot(p) ==
  [errors |-> FromEntries(p.data.errors),
   disabledTime |-> p.data.disabledTime,
   directFailures |-> p.data.directFailures]

(* C22 (lines 1598-2058): shutdown stores the in-memory state as it is at  *)
(* that moment, no other step (an outcome event handled after shutdown     *)
(* included) changes what is stored, and startup makes the in-memory state *)
(* equal to what is stored; so after shutdown and a later startup errors,  *)
(* disabledTime and directFailures are what they were when shutdown ran.   *)
C22_StartRestoresStopSnapshot ==
  [][ revision = "probe" =>
        /\ ShutsDown => (pref'.set /\ Snapshot(pref') = This)
        /\ ~ShutsDown => pref' = pref
        /\ (StartsUp /\ pref.set)
             => /\ errors' = Snapshot(pref).errors
                /\ disabledTime' = Snapshot(pref).disabledTime
                /\ directFailures' = Snapshot(pref).directFailures ]_vars

C22_Witness ==
  /\ revision = "probe"
  /\ started
  /\ pref.set
  /\ This = Snapshot(pref)
  /\ \E req \in BagToSet(inflight) :
        /\ "error" \in req.events
        /\ req.proxyInfo # <<>>
        /\ getProxyInfoKey(req.proxyInfo[1]) \notin DOMAIN errors

(* The last call was a startup out of which an exception escaped.          *)
StartupThrew == out.op = "startup" /\ out.completion = "throw"

(* C23 (lines 1598-2058): a startup that finds a preference it cannot      *)
(* parse completes without an exception and leaves the in-memory state     *)
(* pristine.                                                               *)
C23_UnreadableRecordGivesPristine ==
  /\ ~StartupThrew
  /\ (started /\ restoreThrows(pref) /\ out.op = "startup")
       => This = reset(This)

Members(seq) == {seq[i] : i \in 1..Len(seq)}

(* C24: no key of errors is that of a direct candidate and a lookup of a   *)
(* direct candidate reports it not disabled; a direct candidate of the     *)
(* default chain is in the chain that pruning delivers; and a failure      *)
(* outcome for a direct candidate leaves errors and disabledTime alone.    *)
C24_DirectNeverDisabled ==
  [][ /\ \A k \in DOMAIN errors' : k[1] # PROXY_DIRECT
      /\ ~proxyDisabled(Direct, errors', now').disabled
      /\ proxyDisabled(Direct, errors', now').errors = errors'
      /\ (out'.op = "applyFilter" /\ out'.path \in {"alldisabled", "pruned"}
            /\ Direct \in Members(out'.defaultProxyInfo))
           => Direct \in Members(out'.calls[1])
      /\ \A req \in BagToSet(inflight) :
            (Direct \in InUse(req)
               /\ handleEvent(req, "error", TRUE, Direct, 0))
              => (errors' = errors /\ disabledTime' = disabledTime) ]_vars

C24_Witness ==
  /\ IsApplyFilter
  /\ out.path = "pruned"
  /\ Last(out.defaultProxyInfo) = Direct
  /\ Disabled(out.defaultProxyInfo[1])
  /\ Last(out.calls[1]) = Direct
  /\ out.entry.directFailures > 0
  /\ DOMAIN errors # {}

(* The step handles the completion (a "stop" event on a proxied channel)   *)
(* of a request, for candidate proxyInfo with the given status.            *)
Completion(proxyInfo, status) ==
  \E req \in BagToSet(inflight) :
     proxyInfo \in InUse(req) /\ handleEvent(req, "stop", TRUE, proxyInfo, status)

Candidates == {Null, Direct, Proxy("a"), Proxy("b")}

(* C25: a completion with a status outside [200, 400) leaves errors,       *)
(* disabledTime and directFailures as they were; a record appears or       *)
(* changes only in a step that handles an "error" event; and a record      *)
(* that has not expired disappears only in a step that handles a           *)
(* completion with a status in [200, 400) for its key.                     *)
C25_OnlyErrorsDisable ==
  [][ /\ \A proxyInfo \in Candidates, status \in OutcomeCodes :
           (Completion(proxyInfo, status) /\ ~(status >= 200 /\ status < 400))
             => (errors' = errors /\ disabledTime' = disabledTime
                   /\ directFailures' = directFailures)
      /\ (\E k \in DOMAIN errors' :
             k \notin DOMAIN errors \/ errors'[k] # errors[k])
           => FailureOutcome
      /\ \A k \in DOMAIN errors \ DOMAIN errors' :
           KeyDisabled(k, errors, now)
             => \E proxyInfo \in Candidates, status \in OutcomeCodes :
                   /\ getProxyInfoKey(proxyInfo) = k
                   /\ status >= 200 /\ status < 400
                   /\ Completion(proxyInfo, status) ]_vars

C25_Witness ==
  /\ started
  /\ inflight = EmptyBag
  /\ DOMAIN errors = CandidateKeys(<<Proxy("a"), Proxy("b")>>)
  /\ directFailures > 0

Decision_telemetry ==
  /\ out'.op = "applyFilter"
  /\ out'.path \in {"bypass", "alldisabled", "pruned"}

(* Every candidate of chain has a record younger than DISABLE_HOURS.       *)
AllRecorded(chain) ==
  \A i \in 1..Len(chain) :
     /\ getProxyInfoKey(chain[i]) \in DOMAIN errors
     /\ now - errors[getProxyInfoKey(chain[i])].time < TTL

(* C27 (lines 690-1227): a monitored request decided while the breaker is  *)
(* tripped (a trip time less than DISABLE_HOURS old is stored) or while    *)
(* every candidate of its chain is disabled is given a new direct          *)
(* candidate followed by its whole default chain, whose links are as they  *)
(* were.                                                                   *)
C27_DirectPrepended ==
  [][ (Decision_telemetry
         /\ \/ disabledTime # 0 /\ now - disabledTime < TTL
            \/ AllRecorded(out'.defaultProxyInfo))
        => /\ out'.calls = << <<Direct>> \o out'.defaultProxyInfo >>
           /\ out'.links = PrependLinks(out'.defaultProxyInfo) ]_vars

(* The number of times the emission e occurs in log.                       *)
Count(log, e) == Cardinality({i \in 1..Len(log) : log[i] = e})

(* The step ends a global bypass while the monitor runs.                   *)
BypassEnds == started /\ started' /\ disabledTime # 0 /\ disabledTime' = 0

(* The records the step removes whose disable period has passed by the     *)
(* program's own test.                                                     *)
ExpiredRemoved ==
  {k \in DOMAIN errors \ DOMAIN errors' :
     hoursSince(errors[k].time, now) >= DISABLE_HOURS}

(* C28 (lines 690-1227): a step that ends a global bypass emits exactly    *)
(* one timeout/proxyBypass event and no other step emits one; a step that  *)
(* neither ends a bypass nor re-enables a proxy emits exactly one          *)
(* timeout/proxyInfo event for each record it removes whose disable        *)
(* period has passed, so no record expires silently.                       *)
C28_ExpiryIsReported ==
  [][ (revision = "telemetry" /\ started /\ started')
        => /\ Count(Telemetry(out'), <<"timeout", "proxyBypass">>)
                = (IF BypassEnds THEN 1 ELSE 0)
           /\ (~BypassEnds
                 /\ Count(Telemetry(out'), <<"enabled", "proxyInfo">>) = 0)
                => Count(Telemetry(out'), <<"timeout", "proxyInfo">>)
                     = Cardinality(ExpiredRemoved) ]_vars

----------------------------------------------------------------------------
(* ContentMonitor (lines 1651-1695) and the notifications of the observer  *)
(* service.                                                                *)

(* The topics ContentMonitor.startup registers the monitor for.            *)
ObservedTopics == {"remote-settings:sync-error"}

Topics == {"remote-settings:sync-error", "remote-settings:changes-poll-end"}

(* The switch of ContentMonitor.observe: contentErrors after the call.     *)
observeSwitch(topic, errorName, ce, t) ==
  IF topic = "remote-settings:sync-error"
  THEN IF errorName = "InvalidSignatureError"
       THEN MapSet(ce, REMOTE_SETTINGS, t)
       ELSE ce
  ELSE IF topic = "remote-settings:changes-poll-end"
  THEN EmptyMap
  ELSE ce

(* A notification of topic: observe is called when the monitor was         *)
(* registered for the topic, and not otherwise.                            *)
notifyObservers(topic, errorName) ==
  /\ started
  /\ contentErrors' =
       IF topic \in ObservedTopics
       THEN observeSwitch(topic, errorName, contentErrors, now)
       ELSE contentErrors
  /\ out' = [op |-> "notify", topic |-> topic]
  /\ UNCHANGED <<monitor, pref, revision, now, started, errors, disabledTime,
                 directFailures, inflight>>

SettingsChannels ==
  {Channel(TRUE, "settings", "none"), Channel(TRUE, "other", "none")}

(* Requests to the remote-settings server and to other servers, decided    *)
(* between notifications of both remote-settings topics.                   *)
NextContent ==
  \/ startup
  \/ \E d \in {HalfWindow} : Tick(d)
  \/ \E channel \in SettingsChannels, chain \in WindowChains :
        applyFilter(channel, chain)
  \/ Events(FALSE, BreakerCodes)
  \/ \E topic \in Topics, errorName \in ErrorNames :
        notifyObservers(topic, errorName)

SpecContent == Init /\ [][NextContent]_vars

(* A remote-settings signature error is recorded and is younger than       *)
(* DISABLE_HOURS.                                                          *)
ContentErrorLive ==
  /\ REMOTE_SETTINGS \in DOMAIN contentErrors
  /\ now - contentErrors[REMOTE_SETTINGS] < TTL

(* C29: while a remote-settings signature error younger than 48 h is       *)
(* recorded, a monitored request to the remote-settings server is given    *)
(* the no-proxy result whatever the registry, the trip time and the        *)
(* counter hold, and a monitored request to another server is decided as   *)
(* it is with no content error recorded.                                   *)
C29_ContentErrorForcesDirect ==
  (started /\ ContentErrorLive)
    => \A chain \in Chains \ {<<>>} :
          /\ FilterCall(Channel(TRUE, "settings", "none"), chain).calls
               = << <<>> >>
          /\ LET with == TryBlock(Channel(TRUE, "other", "none"), chain,
                                  This, contentErrors, now)
                 without == TryBlock(Channel(TRUE, "other", "none"), chain,
                                     This, EmptyMap, now)
             IN with = [without EXCEPT !.contentErrors = with.contentErrors]

(* C30: a changes-poll-end notification leaves no content error recorded,  *)
(* so that the content check forces no later request direct.               *)
C30_PollEndClears ==
  [][ (out'.op = "notify"
         /\ out'.topic = "remote-settings:changes-poll-end")
        => contentErrors' = EmptyMap ]_vars

(* The step handles the completion of a request of the revision at lines   *)
(* 690-1227 ("start" event) for candidate proxyInfo with the given status. *)
Completion_telemetry(proxyInfo, status) ==
  \E req \in BagToSet(inflight) :
     /\ proxyInfo \in InUse(req)
     /\ handleEvent_telemetry(req, "start", TRUE, proxyInfo, status)

BreakerCandidates ==
  {Null, Direct, Proxy("a"), Proxy("b"), Proxy("c"), Proxy("d"), Proxy("e")}

(* C31: a step that handles a completion with a status in [200, 400) for   *)
(* a candidate removes the record of the candidate's key when there is     *)
(* one, leaves every other record as it was, adds none, and leaves the     *)
(* trip time as it was; so it does in the revision at lines 690-1227.      *)
C31_SuccessRemovesOnlyItsRecord ==
  [][ \A proxyInfo \in BreakerCandidates, status \in {200} :
        (\/ revision = "probe" /\ Completion(proxyInfo, status)
         \/ revision = "telemetry" /\ Completion_telemetry(proxyInfo, status))
          => /\ errors' = MapDelete(errors, getProxyInfoKey(proxyInfo))
             /\ disabledTime' = disabledTime ]_vars

(* A record was removed by a success while the breaker stays tripped.      *)
C31_Witness ==
  /\ started
  /\ disabledTime # 0
  /\ now - disabledTime < TTL
  /\ errors # EmptyMap
  /\ Cardinality(DOMAIN errors) < MAX_DISABLED_PI

----------------------------------------------------------------------------
(* The two listeners applyFilter adds to a request's wrapper (lines        *)
(* 1746-1747) are never removed: each fires once, in either order, on a    *)
(* proxied channel, the completion with a status in [200, 400).            *)
SuccessCodes == {200, 399}

ProxiedEvents ==
  \E req \in BagToSet(inflight) : \E proxyInfo \in InUse(req) :
     \/ handleEvent(req, "error", TRUE, proxyInfo, 0)
     \/ \E status \in SuccessCodes :
           handleEvent(req, "stop", TRUE, proxyInfo, status)

NextOutcomes ==
  \/ startup
  \/ \E d \in {HalfWindow} : Tick(d)
  \/ \E chain \in Chains :
        applyFilter(Channel(TRUE, "other", "none"), chain)
  \/ ProxiedEvents

SpecOutcomes == Init /\ [][NextOutcomes]_vars

(* C32: once an outcome event of a request has been handled (an error      *)
(* event, or a completion with a status in [200, 400)), the other event    *)
(* of the same request leaves errors, disabledTime and directFailures as   *)
(* they were.                                                              *)
C32_OneOutcomePerRequest ==
  [][ \A req \in BagToSet(inflight), proxyInfo \in Candidates,
         type \in EventTypes, status \in SuccessCodes :
        (req.events # {} /\ handleEvent(req, type, TRUE, proxyInfo, status))
          => UNCHANGED <<errors, disabledTime, directFailures>> ]_vars

----------------------------------------------------------------------------
(* Several monitored requests in flight at once: their decisions and       *)
(* outcome events interleave, each handler running to completion, and the  *)
(* monitor is stopped and started again in between.                        *)
MaxConcurrent == 2

NextConcurrent ==
  \/ startup
  \/ shutdown
  \/ \E chain \in ProbeChains :
        applyFilterAmong(Channel(TRUE, "other", "none"), chain, MaxConcurrent)
  \/ Events(TRUE, SuccessCodes)

SpecConcurrent == Init /\ [][NextConcurrent]_vars

(* C33: in no reachable state does errors hold MAX_DISABLED_PI records or  *)
(* more while disabledTime is unset.                                       *)
C33_TripIsAtomic ==
  Cardinality(DOMAIN errors) >= MAX_DISABLED_PI => disabledTime # 0

(* The breaker tripped while two requests were in flight.                  *)
C33_Witness ==
  /\ Cardinality(DOMAIN errors) >= MAX_DISABLED_PI
  /\ BagCardinality(inflight) = MaxConcurrent

----------------------------------------------------------------------------
(* The activation gate of the revision at lines 690-1227: the API is       *)
(* loaded and unloaded, the failover preference changes, extensions start  *)
(* and shut down and the proxy permission is granted and removed.          *)
NextGate ==
  \/ onStartup_telemetry
  \/ onShutdown_telemetry
  \/ PrefChanges_telemetry
  \/ \E id \in ExtensionIds : ExtensionStarts_telemetry(id)
  \/ \E id \in ExtensionIds : ExtensionShutsDown_telemetry(id)
  \/ \E id \in ExtensionIds, added \in BOOLEAN :
        PermissionsChange_telemetry(id, added)
  \/ Quit

SpecGate == Init_telemetry /\ [][NextGate]_vars

(* monitor.running is what the failover preference and the active          *)
(* extensions call for.                                                    *)
GateOpen_telemetry ==
  monitor.failoverEnabled /\ hasProxyExtension_telemetry(monitor, NoId)

(* C34 (lines 690-1227): while the API is loaded and the application is    *)
(* not shutting down, monitor.running is true exactly when the failover    *)
(* preference is enabled and an active extension that is not provided by   *)
(* the application holds the proxy permission; and the calls of            *)
(* ProxyMonitor.startup and ProxyMonitor.shutdown alternate, startup       *)
(* first.                                                                  *)
C34_GateFollowsPreferenceAndExtensions ==
  /\ (monitor.api /\ ~monitor.shuttingDown)
       => (monitor.running <=> GateOpen_telemetry)
  /\ monitor.alternate

(* The requests applyFilter does not monitor: the ones that are not system *)
(* requests, and the ones with no default chain.                           *)
UnmonitoredCalls ==
  {<<Channel(FALSE, "other", "none"), chain>> : chain \in Chains}
    \cup {<<Channel(TRUE, url, "none"), <<>> >> : url \in {"other", "settings"}}

(* C35: in every reachable state, applyFilter for a request that is not a  *)
(* system request, or that has no default chain, hands the default chain   *)
(* over with its links as they were, adds no listener, and leaves errors,  *)
(* disabledTime, directFailures and contentErrors as they were.            *)
C35_UnmonitoredRequestsUntouched ==
  started =>
    \A call \in UnmonitoredCalls :
       \E f \in {FilterCall(call[1], call[2])} :
          /\ f.completion = "return"
          /\ f.calls = <<call[2]>>
          /\ f.links = DefaultLinks(call[2])
          /\ ~f.listening
          /\ f.this = This
          /\ f.contentErrors = contentErrors

(* A request that is not a system request was decided while the probe was  *)
(* due and a content error was recorded.                                   *)
C35_Witness ==
  /\ IsApplyFilter
  /\ out.path = "notsystem"
  /\ out.defaultProxyInfo # <<>>
  /\ directFailures > MAX_DIRECT_FAILURES
  /\ errors # EmptyMap
  /\ contentErrors # EmptyMap

(* The same for the revision at lines 1229-1596.                           *)
UnmonitoredRequestsUntouched_reset ==
  started =>
    \A chain \in ResetChains \cup {<<>>}, isSystem \in BOOLEAN :
       (chain = <<>> \/ ~isSystem) =>
          \E f \in {FilterCall_reset(Channel(isSystem, "other", "none"),
                                     chain)} :
             /\ f.calls = <<chain>>
             /\ f.links = DefaultLinks(chain)
             /\ ~f.listening
             /\ f.this = This

(* The step adds no record and changes none, leaves the trip time as it    *)
(* was or clears it, and does not increase the counter.                    *)
Shrinks ==
  /\ \A k \in DOMAIN errors' : k \in DOMAIN errors /\ errors'[k] = errors[k]
  /\ disabledTime' \in {disabledTime, 0}
  /\ directFailures' <= directFailures

(* C36: an applyFilter call adds no record and changes none, leaves        *)
(* disabledTime as it was or clears it, and does not increase              *)
(* directFailures; while the monitor runs, a step that does one of these   *)
(* handles an "error" event.                                               *)
C36_DecisionsNeverWorsen ==
  [][ /\ out'.op = "applyFilter" => Shrinks
      /\ (started /\ started' /\ ~Shrinks) => FailureOutcome ]_vars

(* An applyFilter call ended the bypass and emptied the registry.          *)
C36_Witness ==
  /\ IsApplyFilter
  /\ out.entry.disabledTime # 0
  /\ out.entry.errors # EmptyMap
  /\ disabledTime = 0
  /\ errors = EmptyMap

----------------------------------------------------------------------------
(* Requests to the remote-settings server and to other servers through a   *)
(* chain long enough to trip the breaker, with signature errors reported   *)
(* in between.                                                             *)
NextHeal ==
  \/ startup
  \/ \E d \in {HalfWindow} : Tick(d)
  \/ \E channel \in SettingsChannels, chain \in ProbeChains :
        applyFilter(channel, chain)
  \/ Events(TRUE, BreakerCodes)
  \/ notifyObservers("remote-settings:sync-error", "InvalidSignatureError")

SpecHeal == Init /\ [][NextHeal]_vars

(* Every time stored by a failure or a content error is DISABLE_HOURS old  *)
(* or older: none has occurred for that long.                              *)
Quiet(this, ce) ==
  /\ \A k \in DOMAIN this.errors : now - this.errors[k].time >= TTL
  /\ this.disabledTime # 0 => now - this.disabledTime >= TTL
  /\ \A source \in DOMAIN ce : now - ce[source] >= TTL

(* The candidates of seq that are candidates of chain, in seq's order.     *)
Among(seq, chain) ==
  SelectSeq(seq, LAMBDA c : \E i \in 1..Len(chain) : chain[i] = c)

(* C37: a monitored request decided when no failure and no content error   *)
(* has occurred for DISABLE_HOURS or more is given a chain in which every  *)
(* candidate of its default chain occurs, in the default chain's order,    *)
(* whatever errors, disabledTime, directFailures and contentErrors held.   *)
C37_SelfHealing ==
  [][ (/\ out'.op = "applyFilter"
       /\ out'.path \in {"probe", "content", "bypass", "alldisabled",
                         "pruned"}
       /\ Quiet(This, contentErrors))
        => /\ Len(out'.calls) = 1
           /\ Among(out'.calls[1], out'.defaultProxyInfo)
                = out'.defaultProxyInfo ]_vars

(* A request decided DISABLE_HOURS after the breaker tripped was pruned    *)
(* against the emptied registry.                                           *)
C37_Witness ==
  /\ IsApplyFilter
  /\ out.path = "pruned"
  /\ out.entry.disabledTime # 0
  /\ now - out.entry.disabledTime >= TTL
  /\ Cardinality(DOMAIN out.entry.errors) >= MAX_DISABLED_PI
  /\ contentErrors = EmptyMap
  /\ errors = EmptyMap

----------------------------------------------------------------------------
(* The activation gate of the revision at lines 690-1227 in a profile      *)
(* whose stored record is absent or is not JSON.                           *)
GatePrefs == {NoPref, Unparsable}

Init_gateStored ==
  /\ revision = "telemetry"
  /\ pref \in GatePrefs
  /\ now = StartTime
  /\ started = FALSE
  /\ errors = EmptyMap
  /\ disabledTime = 0
  /\ directFailures = 0
  /\ contentErrors = EmptyMap
  /\ inflight = EmptyBag
  /\ monitor = MonitorInit
  /\ out = NoOut

SpecGateStored == Init_gateStored /\ [][NextGate]_vars

----------------------------------------------------------------------------
(* The activation of the revision at lines 1598-2058: the API is loaded    *)
(* and unloaded, the failover preference changes, add-ons are installed,   *)
(* enabled, disabled and uninstalled.                                      *)
NextAddons ==
  \/ onStartup
  \/ onShutdown
  \/ PrefChanges
  \/ \E id \in ExtensionIds : AddonEnabled(id)
  \/ \E id \in ExtensionIds, holds \in BOOLEAN : AddonInstalled(id, holds)
  \/ \E id \in ExtensionIds : AddonDisabled(id)
  \/ \E id \in ExtensionIds : AddonUninstalled(id)

SpecAddons == Init /\ [][NextAddons]_vars

SpecAddonsStored == Init_stored /\ [][NextAddons]_vars

(* The monitor is started: monitor.running in the revision at lines        *)
(* 690-1227, where startMonitors and stopMonitors are the only callers of  *)
(* ProxyMonitor.startup and ProxyMonitor.shutdown, and this.started in     *)
(* the revision at lines 1598-2058.                                        *)
MonitorStarted ==
  IF revision = "telemetry" THEN monitor.running ELSE started

(* C38: the channel filter is registered exactly when the monitor is       *)
(* started; and the calls of ProxyMonitor.startup and of                   *)
(* ProxyMonitor.shutdown that register, restore, unregister or store       *)
(* alternate, startup first, so that nothing is registered or restored     *)
(* while started and nothing is unregistered or stored while stopped.      *)
C38_FilterRegisteredIffStarted ==
  /\ monitor.filter <=> MonitorStarted
  /\ monitor.alternate

(* ProxyMonitor.startup threw in restore, in the revision at lines         *)
(* 1598-2058.                                                              *)
StartupThrew_gate ==
  /\ revision = "probe"
  /\ monitor.error = "SyntaxError"
  /\ started

(* The three parts of C39.                                                 *)
ObserverRegisteredIffStarted == monitor.observers > 0 <=> started

ObserverAtMostOnce == monitor.observers <= 1

ObserverNotRemovedUnregistered == monitor.error # "NS_ERROR_FAILURE"

(* C39 (lines 1598-2058): ContentMonitor is registered as an observer      *)
(* exactly when ProxyMonitor is started, it is never registered twice and  *)
(* removeObserver is never called while it is not registered.              *)
C39_ObserverFollowsProxyMonitor ==
  /\ ObserverRegisteredIffStarted
  /\ ObserverAtMostOnce
  /\ ObserverNotRemovedUnregistered
====
